---- MODULE Spec2Model ----
(***************************************************************************)
(* Model of the batch downloader (download-images script, held in          *)
(* verify-unsplash-account.js from line 334 on) and of the build-time      *)
(* cache script with the shared library (build-cache-images.js).           *)
(*                                                                         *)
(* A download run is main(): load the remote manifest, process its         *)
(* entries in windows of CONFIG.concurrency tasks, each task checking its  *)
(* destination file and calling downloadImage, then write the local        *)
(* manifest.  The remote side and the file system are the environment:     *)
(* every outcome of fetch(), of the body stream and of the file system is  *)
(* a nondeterministic choice.                                              *)
(***************************************************************************)
EXTENDS Integers, Sequences, FiniteSets, TLC

\* ------------------------------------------------------------------ bounds
MaxEntries == 3        \* entries of the remote manifest
MaxRuns == 2           \* download runs made one after the other
MaxUrls == 3           \* URLs found by the scan of a build run
MaxPhotos == 2         \* photos the scanned URLs refer to
MaxItems == 3          \* items of the download directory besides the manifest
MaxSize == 2           \* size of a file of the download directory
MaxScanEntries == 3    \* entries of the content root
MaxRetries == 4        \* largest retries value passed to downloadImage

\* ------------------------------------------------------- program constants
DefaultConcurrency == 3      \* CONFIG.concurrency
retries == 3                 \* CONFIG.retries
BackoffUnit == 1000          \* 1000 * attempt

VARIABLES
  manifestPresent,   \* the remote manifest file exists
  imageEntries,      \* Object.entries(manifest.images): sequence of photoIds
  concurrency,       \* CONFIG.concurrency of this installation
  files,             \* destination file of each photoId: absent/partial/complete
  run,               \* number of the current download run
  pc,                \* position of main()
  i,                 \* loop variable of downloadImagesBatch (0-based)
  st,                \* position of each entry's task
  attempt,           \* loop variable of downloadImage, per task
  timer,             \* the abort timer of the task's current attempt is armed
  stalled,           \* the remote side has stopped sending data to the task
  results,           \* {successful, failed, skipped} arrays
  completed,         \* counter of the progress bar
  requests,          \* network requests issued per entry in this run
  opened,            \* the entry's file was opened for writing in this run
  delays,            \* backoff delays observed per entry in this run
  pauses,            \* inter-window pauses taken in this run
  localManifest,     \* the document in local-manifest.json: none or one
  manifestWrites,    \* writes of local-manifest.json in this run
  exitCode,          \* process exit code, -1 while running
  prevFailed,        \* length of results.failed of the previous run, -1 if none
  seen,              \* what fs.access found at the entry's destination
  lastError,         \* message of the error the task's catch block holds
  fatal              \* what ended the run outside the batch, "none" if nothing

\* state of a build run (build-cache-images.js)
VARIABLES
  accessKey,         \* process.env.UNSPLASH_ACCESS_KEY is set
  imageUrls,         \* what scanMdxFiles returned: URLs, no string twice
  bpc,               \* position of the build script's main()
  idx,               \* position of the for-of loop in imageUrls (1-based)
  imageManifest,     \* photoId -> imageData
  cached,            \* counter of fetches that returned data
  failed,            \* counter of URLs that gave no data
  call,              \* the current or last call of fetchImageData
  reads,             \* read requests issued per photoId in this run
  tracks,            \* download-tracking requests issued per photoId
  gotData,           \* photoIds for which a call returned metadata
  remoteManifest,    \* the document in unsplash-manifest.json: none or one
  remoteWrites,      \* writes of unsplash-manifest.json in this run
  buildExit,         \* exit code of the build run, -1 while running
  previousImages     \* identifiers keyed in the manifest file before the run

dvars == <<manifestPresent, imageEntries, concurrency, files, run, pc, i, st,
          attempt, timer, stalled, results, completed, requests, opened,
          delays, pauses, localManifest, manifestWrites, exitCode, prevFailed,
          seen, lastError, fatal>>

bvars == <<accessKey, imageUrls, bpc, idx, imageManifest, cached, failed, call,
           reads, tracks, gotData, remoteManifest, remoteWrites, buildExit,
           previousImages>>

\* state of a purge run (clean-images script)
VARIABLES
  dirExists,         \* CONFIG.downloadDir exists
  dirItems,          \* what readdir lists besides the manifest, in order
  onDisk,            \* which of the listed items are still in the directory
  manifestOnDisk,    \* local-manifest.json is in the directory
  manifestLocked,    \* unlink of local-manifest.json is rejected
  ppc,               \* position of the purge script's main()
  item,              \* position of the for-of loop in the listing (1-based)
  fileCount,         \* what countFiles returned
  manifestExists,    \* what the access check of lines 99-102 gave
  removedFiles,      \* counter of removed files
  freedSpace,        \* sum of the sizes of the removed files
  purgeExit          \* exit code of the purge run, -1 while running

\* state of a scan of the content tree (scanMdxFiles)
VARIABLES
  contentTree,       \* entries of the content root, in readdir order
  spc,               \* position of scanMdxFiles
  entry,             \* position of the for-of loop of scanDirectory (1-based)
  foundUrls          \* the Set imageUrls of scanMdxFiles

pvars == <<dirExists, dirItems, onDisk, manifestOnDisk, manifestLocked, ppc,
           item, fileCount, manifestExists, removedFiles, freedSpace,
           purgeExit>>

svars == <<contentTree, spc, entry, foundUrls>>

\* one application of a URL function of the library
VARIABLES
  fnArgs,            \* the arguments of the call
  fnResult           \* what the call returned, NoResult before it returns

\* state of a run of the URL-conversion command (unsplash-url-to-download.js)
VARIABLES
  cliArgs,           \* the parsed command line: flags and the URL argument
  cpc,               \* position of runCLI()
  cliResult,         \* what convertToDownloadUrl gave
  cliOutput,         \* what was printed: nothing, the result, or an error
  cliExit            \* exit code of the command, -1 while running

\* state of a run of the single-image downloader
VARIABLES
  oneArgs,           \* the URL argument and the options
  oneRetries,        \* the retries parameter of downloadImage
  oneDisk,           \* the file of each extension at the output name
  opc,               \* position of main()
  oneCall,           \* the caller of the current call of fetchImageData
  oneReads,          \* read requests issued to the provider
  oneTracks,         \* download-tracking requests issued to the provider
  oneChecked,        \* extension of the path main() checked, or "none"
  oneTarget,         \* extension of the path the transfer writes to
  oneAttempt,        \* loop variable of downloadImage
  oneAttempts,       \* transfer attempts made
  oneDelays,         \* backoff delays waited
  oneResult,         \* what downloadImage resolved to
  oneExit            \* exit code of the downloader, -1 while running

fvars == <<fnArgs, fnResult>>

cvars == <<cliArgs, cpc, cliResult, cliOutput, cliExit>>

gvars == <<oneArgs, oneRetries, oneDisk, opc, oneCall, oneReads, oneTracks,
           oneChecked, oneTarget, oneAttempt, oneAttempts, oneDelays,
           oneResult, oneExit>>

tvars == <<fvars, cvars, gvars>>

ovars == <<pvars, svars, tvars>>

vars == <<dvars, bvars, ovars>>

PhotoIds == 1..MaxEntries

N == Len(imageEntries)
Tasks == 1..N

\* a window that takes every entry left
BatchUnsliced(k) == {e \in Tasks : k < e}

\* imageEntries.slice(i, i + CONFIG.concurrency), as task indices
Batch(k) == {e \in Tasks : k < e /\ e <= k + concurrency}

\* number of the window an entry belongs to
WindowOf(e) == (e - 1) \div concurrency

InFlight == {e \in Tasks : st[e] \in {"fetch", "body"}}

\* ---------------------------------------------------------------- initial
FreshRun(n) ==
  /\ pc = "start"
  /\ i = 0
  /\ st = [e \in 1..n |-> "pending"]
  /\ attempt = [e \in 1..n |-> 0]
  /\ timer = [e \in 1..n |-> FALSE]
  /\ stalled = [e \in 1..n |-> FALSE]
  /\ results = [successful |-> <<>>, failed |-> <<>>, skipped |-> <<>>]
  /\ completed = 0
  /\ requests = [e \in 1..n |-> 0]
  /\ opened = [e \in 1..n |-> FALSE]
  /\ delays = [e \in 1..n |-> <<>>]
  /\ seen = [e \in 1..n |-> "unchecked"]
  /\ lastError = [e \in 1..n |-> "none"]
  /\ pauses = 0
  /\ manifestWrites = 0
  /\ exitCode = -1
  /\ fatal = "none"

\* the build script is not running
BuildIdle ==
  /\ accessKey = FALSE
  /\ imageUrls = <<>>
  /\ bpc = "idle"
  /\ idx = 1
  /\ imageManifest = <<>>
  /\ cached = 0
  /\ failed = 0
  /\ call = [photoId |-> 0, at |-> "idle", read |-> "none", track |-> "none",
             nreads |-> 0, ntracks |-> 0, result |-> "none"]
  /\ reads = [p \in 1..MaxPhotos |-> 0]
  /\ tracks = [p \in 1..MaxPhotos |-> 0]
  /\ gotData = {}
  /\ remoteManifest = {}
  /\ remoteWrites = 0
  /\ buildExit = -1
  /\ previousImages = {}

DownloadInit ==
  /\ manifestPresent \in BOOLEAN
  /\ \E n \in 0..MaxEntries : imageEntries = [k \in 1..n |-> k]
  /\ concurrency \in 1..DefaultConcurrency
  /\ files \in [PhotoIds -> {"absent", "complete"}]
  /\ \A p \in PhotoIds : p > Len(imageEntries) => files[p] = "absent"
  /\ run = 1
  /\ localManifest = {}
  /\ prevFailed = -1
  /\ FreshRun(Len(imageEntries))

\* the purge script is not running
PurgeIdle ==
  /\ dirExists = FALSE
  /\ dirItems = <<>>
  /\ onDisk = <<>>
  /\ manifestOnDisk = FALSE
  /\ manifestLocked = FALSE
  /\ ppc = "idle"
  /\ item = 1
  /\ fileCount = 0
  /\ manifestExists = FALSE
  /\ removedFiles = 0
  /\ freedSpace = 0
  /\ purgeExit = -1

\* no scan is running
ScanIdle ==
  /\ contentTree = <<>>
  /\ spc = "idle"
  /\ entry = 1
  /\ foundUrls = {}

NoResult == [returned |-> FALSE]

\* no library function is being applied
FnIdle ==
  /\ fnArgs = <<>>
  /\ fnResult = NoResult

\* the URL-conversion command is not running
CliIdle ==
  /\ cliArgs = <<>>
  /\ cpc = "idle"
  /\ cliResult = "none"
  /\ cliOutput = "none"
  /\ cliExit = -1

\* the single-image downloader is not running
OneIdle ==
  /\ oneArgs = <<>>
  /\ oneRetries = retries
  /\ oneDisk = <<>>
  /\ opc = "idle"
  /\ oneCall = "none"
  /\ oneReads = 0
  /\ oneTracks = 0
  /\ oneChecked = "none"
  /\ oneTarget = "none"
  /\ oneAttempt = 0
  /\ oneAttempts = 0
  /\ oneDelays = <<>>
  /\ oneResult = "none"
  /\ oneExit = -1

ToolsIdle == FnIdle /\ CliIdle /\ OneIdle

OthersIdle == PurgeIdle /\ ScanIdle /\ ToolsIdle

Init == DownloadInit /\ BuildIdle /\ OthersIdle

\* --------------------------------------------------------------- main()
\* a run that goes on without the remote manifest
ManifestMissingIgnored ==
  /\ pc = "start"
  /\ ~manifestPresent
  /\ N > 0
  /\ pc' = "loop"
  /\ UNCHANGED <<manifestPresent, imageEntries, concurrency, files, run, i, st,
                 attempt, timer, stalled, results, completed, requests, opened,
                 delays, pauses, localManifest, manifestWrites, exitCode,
                 prevFailed, seen, lastError, fatal, bvars, ovars>>

\* main, lines 554-562: the remote manifest is missing
ManifestMissing ==
  /\ pc = "start"
  /\ ~manifestPresent
  /\ pc' = "exited"
  /\ exitCode' = 1
  /\ UNCHANGED <<manifestPresent, imageEntries, concurrency, files, run, i, st,
                 attempt, timer, stalled, results, completed, requests, opened,
                 delays, pauses, localManifest, manifestWrites, prevFailed,
                 seen, lastError, fatal, bvars, ovars>>

\* main, lines 564-574: the manifest holds no image
EmptyManifest ==
  /\ pc = "start"
  /\ manifestPresent
  /\ N = 0
  /\ pc' = "exited"
  /\ exitCode' = 0
  /\ UNCHANGED <<manifestPresent, imageEntries, concurrency, files, run, i, st,
                 attempt, timer, stalled, results, completed, requests, opened,
                 delays, pauses, localManifest, manifestWrites, prevFailed,
                 seen, lastError, fatal, bvars, ovars>>

\* main, lines 576-591: create the directory and the progress bar, call
\* downloadImagesBatch
StartDownloads ==
  /\ pc = "start"
  /\ manifestPresent
  /\ N > 0
  /\ pc' = "loop"
  /\ UNCHANGED <<manifestPresent, imageEntries, concurrency, files, run, i, st,
                 attempt, timer, stalled, results, completed, requests, opened,
                 delays, pauses, localManifest, manifestWrites, exitCode, prevFailed,
                 seen, lastError, fatal, bvars, ovars>>

\* ------------------------------------------------- downloadImagesBatch
\* lines 417-456 up to each task's first await: batch.map starts every task
\* of the window, each running to its fs.access call
StartWindow ==
  /\ pc = "loop"
  /\ i < N
  /\ st' = [e \in Tasks |-> IF e \in Batch(i) THEN "access" ELSE st[e]]
  /\ pc' = "await"
  /\ UNCHANGED <<manifestPresent, imageEntries, concurrency, files, run, i,
                 attempt, timer, stalled, results, completed, requests, opened,
                 delays, pauses, localManifest, manifestWrites, exitCode, prevFailed,
                 seen, lastError, fatal, bvars, ovars>>

\* a check that looks where no file is ever found
FileNeverFound(e) == FALSE

\* lines 445-446: fs.access(filepath) resolves
FileExists(e) == files[imageEntries[e]] # "absent"

\* lines 445-453: the destination exists
AccessExists(e) ==
  /\ st[e] = "access"
  /\ FileExists(e)
  /\ seen' = [seen EXCEPT ![e] = files[imageEntries[e]]]
  /\ results' = [results EXCEPT !.skipped =
        Append(@, [photoId |-> imageEntries[e], reason |-> "Already exists"])]
  /\ completed' = completed + 1
  /\ st' = [st EXCEPT ![e] = "done"]
  /\ UNCHANGED <<manifestPresent, imageEntries, concurrency, files, run, pc, i,
                 attempt, timer, stalled, requests, opened, delays, pauses,
                 localManifest, manifestWrites, exitCode, prevFailed, lastError, fatal, bvars, ovars>>

\* downloadImage, lines 368-378: an attempt arms its abort timer and issues
\* the request
StartAttempt(e, a) ==
  /\ attempt' = [attempt EXCEPT ![e] = a]
  /\ timer' = [timer EXCEPT ![e] = TRUE]
  /\ stalled' = [stalled EXCEPT ![e] = FALSE]
  /\ requests' = [requests EXCEPT ![e] = @ + 1]
  /\ lastError' = [lastError EXCEPT ![e] = "none"]
  /\ st' = [st EXCEPT ![e] = "fetch"]

\* a download that does not look at what fs.access found
AccessUnchecked(e) ==
  /\ st[e] = "access"
  /\ seen' = [seen EXCEPT ![e] = files[imageEntries[e]]]
  /\ StartAttempt(e, 1)
  /\ UNCHANGED <<manifestPresent, imageEntries, concurrency, files, run, pc, i,
                 results, completed, opened, delays, pauses, localManifest,
                 manifestWrites, exitCode, prevFailed, fatal, bvars, ovars>>

\* lines 454-458: the destination does not exist, downloadImage is called
AccessMissing(e) ==
  /\ st[e] = "access"
  /\ ~FileExists(e)
  /\ seen' = [seen EXCEPT ![e] = files[imageEntries[e]]]
  /\ StartAttempt(e, 1)
  /\ UNCHANGED <<manifestPresent, imageEntries, concurrency, files, run, pc, i,
                 results, completed, opened, delays, pauses, localManifest,
                 manifestWrites, exitCode, prevFailed, fatal, bvars, ovars>>

\* a backoff that waits the same time before every retry
BackoffConstant(a) == BackoffUnit

\* line 404: the wait after failed attempt a
BackoffDelay(a) == BackoffUnit * a

\* a catch block that returns nothing from the last attempt
CatchDropsLast(e, msg) ==
  IF attempt[e] = retries
  THEN /\ completed' = completed + 1
       /\ st' = [st EXCEPT ![e] = "done"]
       /\ UNCHANGED <<results, delays>>
  ELSE /\ st' = [st EXCEPT ![e] = "backoff"]
       /\ delays' = [delays EXCEPT ![e] = Append(@, BackoffDelay(attempt[e]))]
       /\ UNCHANGED <<results, completed>>

\* downloadImage, lines 394-405, and lines 469-480 of the caller: the catch
\* block of attempt a.  The last attempt returns the failure, which the task
\* records; any other attempt waits 1000 * attempt before the next one.
Catch(e, msg) ==
  IF attempt[e] = retries
  THEN /\ results' = [results EXCEPT !.failed =
             Append(@, [photoId |-> imageEntries[e], error |-> msg])]
       /\ completed' = completed + 1
       /\ st' = [st EXCEPT ![e] = "done"]
       /\ UNCHANGED delays
  ELSE /\ st' = [st EXCEPT ![e] = "backoff"]
       /\ delays' = [delays EXCEPT ![e] = Append(@, BackoffDelay(attempt[e]))]
       /\ UNCHANGED <<results, completed>>

\* lines 373-391: the response arrives with a success status; the timer is
\* cleared, the directory made and the file opened for writing
ResponseOk(e) ==
  /\ st[e] = "fetch"
  /\ ~stalled[e]
  /\ timer' = [timer EXCEPT ![e] = FALSE]
  /\ files' = [files EXCEPT ![imageEntries[e]] = "partial"]
  /\ opened' = [opened EXCEPT ![e] = TRUE]
  /\ st' = [st EXCEPT ![e] = "body"]
  /\ UNCHANGED <<manifestPresent, imageEntries, concurrency, run, pc, i, attempt,
                 stalled, results, completed, requests, delays, pauses,
                 localManifest, manifestWrites, exitCode, prevFailed,
                 seen, lastError, fatal, bvars, ovars>>

\* messages of an attempt that fails before any byte is written: the status
\* is not ok (line 383), or fetch rejects
RequestErrors == {"HTTP", "network"}

\* message of a pipeline that rejects (line 391): the error of the stream
\* that failed
BodyErrors == {"write"}

\* lines 373-384: the attempt fails before any byte is written
RequestFails(e, msg) ==
  /\ st[e] = "fetch"
  /\ ~stalled[e]
  /\ msg \in RequestErrors
  /\ timer' = [timer EXCEPT ![e] = FALSE]
  /\ lastError' = [lastError EXCEPT ![e] = msg]
  /\ Catch(e, msg)
  /\ UNCHANGED <<manifestPresent, imageEntries, concurrency, files, run, pc, i,
                 attempt, stalled, requests, opened, pauses, localManifest,
                 manifestWrites, exitCode, prevFailed, seen, fatal, bvars, ovars>>

\* line 371: the timer fires and aborts the request it belongs to
TimeoutAbort(e) ==
  /\ st[e] \in {"fetch", "body"}
  /\ timer[e]
  /\ timer' = [timer EXCEPT ![e] = FALSE]
  /\ lastError' = [lastError EXCEPT ![e] = "aborted"]
  /\ Catch(e, "aborted")
  /\ UNCHANGED <<manifestPresent, imageEntries, concurrency, files, run, pc, i,
                 attempt, stalled, requests, opened, pauses, localManifest,
                 manifestWrites, exitCode, prevFailed, seen, fatal, bvars, ovars>>

\* lines 391-393 and 460-468, 480: the body is streamed to its end
BodyComplete(e) ==
  /\ st[e] = "body"
  /\ ~stalled[e]
  /\ files' = [files EXCEPT ![imageEntries[e]] = "complete"]
  /\ results' = [results EXCEPT !.successful =
        Append(@, [photoId |-> imageEntries[e]])]
  /\ completed' = completed + 1
  /\ st' = [st EXCEPT ![e] = "done"]
  /\ UNCHANGED <<manifestPresent, imageEntries, concurrency, run, pc, i, attempt,
                 timer, stalled, requests, opened, delays, pauses, localManifest,
                 manifestWrites, exitCode, prevFailed, seen, lastError, fatal, bvars, ovars>>

\* line 391: the pipeline rejects with the error of one of its streams; what
\* was written stays on disk
BodyFails(e, msg) ==
  /\ st[e] = "body"
  /\ ~stalled[e]
  /\ msg \in BodyErrors
  /\ lastError' = [lastError EXCEPT ![e] = msg]
  /\ Catch(e, msg)
  /\ UNCHANGED <<manifestPresent, imageEntries, concurrency, files, run, pc, i,
                 attempt, timer, stalled, requests, opened, pauses,
                 localManifest, manifestWrites, exitCode, prevFailed, seen, fatal, bvars, ovars>>

\* the remote side stops sending data, before the headers or during the body
RemoteStalls(e) ==
  /\ st[e] \in {"fetch", "body"}
  /\ ~stalled[e]
  /\ stalled' = [stalled EXCEPT ![e] = TRUE]
  /\ UNCHANGED <<manifestPresent, imageEntries, concurrency, files, run, pc, i,
                 st, attempt, timer, results, completed, requests, opened,
                 delays, pauses, localManifest, manifestWrites, exitCode,
                 prevFailed, seen, lastError, fatal, bvars, ovars>>

\* line 404 and the next turn of the loop at 368: the backoff delay is over
BackoffDone(e) ==
  /\ st[e] = "backoff"
  /\ StartAttempt(e, attempt[e] + 1)
  /\ UNCHANGED <<manifestPresent, imageEntries, concurrency, files, run, pc, i,
                 results, completed, opened, delays, pauses, localManifest,
                 manifestWrites, exitCode, prevFailed, seen, fatal, bvars, ovars>>

\* line 486: the pause is taken when another window follows
PauseFollows(k) == k + concurrency < N

\* a wait that ends with the first task of the window
WindowRaced(k) == \E e \in Batch(k) : st[e] = "done"

\* line 483: Promise.all resolves when every task of the window is done
WindowSettled(k) == \A e \in Batch(k) : st[e] = "done"

\* lines 483-488: the window is over, the pause follows or the loop goes on
WindowDone ==
  /\ pc = "await"
  /\ WindowSettled(i)
  /\ IF PauseFollows(i)
     THEN /\ pc' = "pause"
          /\ pauses' = pauses + 1
          /\ UNCHANGED i
     ELSE /\ pc' = "loop"
          /\ i' = i + concurrency
          /\ UNCHANGED pauses
  /\ UNCHANGED <<manifestPresent, imageEntries, concurrency, files, run, st,
                 attempt, timer, stalled, results, completed, requests, opened,
                 delays, localManifest, manifestWrites, exitCode, prevFailed,
                 seen, lastError, fatal, bvars, ovars>>

\* line 487 and the loop increment at 417
PauseDone ==
  /\ pc = "pause"
  /\ pc' = "loop"
  /\ i' = i + concurrency
  /\ UNCHANGED <<manifestPresent, imageEntries, concurrency, files, run, st,
                 attempt, timer, stalled, results, completed, requests, opened,
                 delays, pauses, localManifest, manifestWrites, exitCode, prevFailed,
                 seen, lastError, fatal, bvars, ovars>>

SeqToSet(s) == {s[k] : k \in 1..Len(s)}

\* createLocalManifest, lines 518-525: the fields of the entry of a
\* successful transfer
DownloadedEntryFields ==
  {"local_path", "download_url", "optimized_url", "author", "downloaded_at",
   "unwatermarked"}

\* createLocalManifest, lines 534-538: the fields of the entry of a file that
\* was skipped
SkippedEntryFields == {"local_path", "skipped", "reason"}

\* a document whose total leaves out the skipped entries
LocalManifestUncounted(r) ==
  [images |->
     [p \in {x.photoId : x \in SeqToSet(r.successful) \cup SeqToSet(r.skipped)} |->
        IF \E x \in SeqToSet(r.skipped) : x.photoId = p
        THEN SkippedEntryFields ELSE DownloadedEntryFields],
   stats |-> [total_images |-> Len(r.successful) + Len(r.failed),
              downloaded |-> Len(r.successful),
              failed |-> Len(r.failed),
              skipped |-> Len(r.skipped)]]

\* a document that also keys the entries whose transfer failed
LocalManifestOfAll(r) ==
  [images |->
     [p \in {x.photoId : x \in SeqToSet(r.successful) \cup SeqToSet(r.skipped)
                                  \cup SeqToSet(r.failed)} |->
        IF \E x \in SeqToSet(r.skipped) : x.photoId = p
        THEN SkippedEntryFields ELSE DownloadedEntryFields],
   stats |-> [total_images |-> Len(r.successful) + Len(r.failed) + Len(r.skipped),
              downloaded |-> Len(r.successful),
              failed |-> Len(r.failed),
              skipped |-> Len(r.skipped)]]

\* createLocalManifest, lines 495-548: the document built from the results;
\* an entry is the set of the fields it carries
LocalManifestOf(r) ==
  [images |->
     [p \in {x.photoId : x \in SeqToSet(r.successful) \cup SeqToSet(r.skipped)} |->
        IF \E x \in SeqToSet(r.skipped) : x.photoId = p
        THEN SkippedEntryFields ELSE DownloadedEntryFields],
   stats |-> [total_images |-> Len(r.successful) + Len(r.failed) + Len(r.skipped),
              downloaded |-> Len(r.successful),
              failed |-> Len(r.failed),
              skipped |-> Len(r.skipped)]]

\* a loop that is left once its first window is over
BatchLoopEndedEarly == i > 0

\* line 417: the loop condition i < imageEntries.length is false
BatchLoopEnded == i >= N

\* main, lines 591-598: downloadImagesBatch has returned, the local manifest
\* is written
CreateLocalManifest ==
  /\ pc = "loop"
  /\ BatchLoopEnded
  /\ localManifest' = {LocalManifestOf(results)}
  /\ manifestWrites' = manifestWrites + 1
  /\ pc' = "report"
  /\ UNCHANGED <<manifestPresent, imageEntries, concurrency, files, run, i, st,
                 attempt, timer, stalled, results, completed, requests, opened,
                 delays, pauses, exitCode, prevFailed,
                 seen, lastError, fatal, bvars, ovars>>

\* an exit code that is also non-zero when an entry was skipped
ExitCodeStrict(r) == IF Len(r.failed) > 0 \/ Len(r.skipped) > 0 THEN 1 ELSE 0

\* lines 632-637: exit(1) when an entry failed, else main returns
ExitCodeOf(r) == IF Len(r.failed) > 0 THEN 1 ELSE 0

\* main, lines 600-638: the report, and the exit code
Exit ==
  /\ pc = "report"
  /\ exitCode' = ExitCodeOf(results)
  /\ pc' = "exited"
  /\ UNCHANGED <<manifestPresent, imageEntries, concurrency, files, run, i, st,
                 attempt, timer, stalled, results, completed, requests, opened,
                 delays, pauses, localManifest, manifestWrites, prevFailed,
                 seen, lastError, fatal, bvars, ovars>>

\* the script is run again on the same manifest and directory
RunAgain ==
  /\ pc = "exited"
  /\ manifestPresent
  /\ run < MaxRuns
  /\ run' = run + 1
  /\ pc' = "start"
  /\ i' = 0
  /\ st' = [e \in Tasks |-> "pending"]
  /\ attempt' = [e \in Tasks |-> 0]
  /\ timer' = [e \in Tasks |-> FALSE]
  /\ stalled' = [e \in Tasks |-> FALSE]
  /\ results' = [successful |-> <<>>, failed |-> <<>>, skipped |-> <<>>]
  /\ completed' = 0
  /\ requests' = [e \in Tasks |-> 0]
  /\ opened' = [e \in Tasks |-> FALSE]
  /\ delays' = [e \in Tasks |-> <<>>]
  /\ seen' = [e \in Tasks |-> "unchecked"]
  /\ lastError' = [e \in Tasks |-> "none"]
  /\ pauses' = 0
  /\ manifestWrites' = 0
  /\ exitCode' = -1
  /\ prevFailed' = Len(results.failed)
  /\ fatal' = "none"
  /\ UNCHANGED <<manifestPresent, imageEntries, concurrency, files, localManifest,
                 bvars, ovars>>

\* one step of a download run
Next ==
  \/ ManifestMissing
  \/ EmptyManifest
  \/ StartDownloads
  \/ StartWindow
  \/ \E e \in Tasks : AccessExists(e)
  \/ \E e \in Tasks : AccessMissing(e)
  \/ \E e \in Tasks : ResponseOk(e)
  \/ \E e \in Tasks, msg \in RequestErrors : RequestFails(e, msg)
  \/ \E e \in Tasks : TimeoutAbort(e)
  \/ \E e \in Tasks : BodyComplete(e)
  \/ \E e \in Tasks, msg \in BodyErrors : BodyFails(e, msg)
  \/ \E e \in Tasks : BackoffDone(e)
  \/ WindowDone
  \/ PauseDone
  \/ CreateLocalManifest
  \/ Exit

\* One download run in which the remote side answers every request or breaks
\* it off.
Spec == Init /\ [][Next]_vars

RerunNext ==
  \/ Next
  \/ RunAgain

\* Download runs made one after the other on the same manifest and
\* directory.
RerunSpec == Init /\ [][RerunNext]_vars

\* One download run against a remote side that may also fall silent for
\* good.  The event loop runs every callback that is ready, so a step of the
\* run that stays possible is eventually taken; nothing obliges the remote
\* side to stall.
FairNext ==
  \/ Next
  \/ \E e \in Tasks : RemoteStalls(e)

FairSpec == Init /\ [][FairNext]_vars /\ WF_vars(Next)

\* lines 640-643: the runtime has no fetch, the script exits before main()
FetchUnavailable ==
  /\ pc = "start"
  /\ pc' = "exited"
  /\ exitCode' = 1
  /\ fatal' = "fetch unavailable"
  /\ UNCHANGED <<manifestPresent, imageEntries, concurrency, files, run, i, st,
                 attempt, timer, stalled, results, completed, requests, opened,
                 delays, pauses, localManifest, manifestWrites, prevFailed,
                 seen, lastError, bvars, ovars>>

\* lines 566-567 and 645-649: readFile or JSON.parse throws on the manifest
\* file, main() rejects
ManifestUnreadable ==
  /\ pc = "start"
  /\ manifestPresent
  /\ pc' = "exited"
  /\ exitCode' = 1
  /\ fatal' = "manifest unreadable"
  /\ UNCHANGED <<manifestPresent, imageEntries, concurrency, files, run, i, st,
                 attempt, timer, stalled, results, completed, requests, opened,
                 delays, pauses, localManifest, manifestWrites, prevFailed,
                 seen, lastError, bvars, ovars>>

\* lines 586 and 645-649: the download directory cannot be created, main()
\* rejects
MkdirThrows ==
  /\ pc = "start"
  /\ manifestPresent
  /\ N > 0
  /\ pc' = "exited"
  /\ exitCode' = 1
  /\ fatal' = "mkdir"
  /\ UNCHANGED <<manifestPresent, imageEntries, concurrency, files, run, i, st,
                 attempt, timer, stalled, results, completed, requests, opened,
                 delays, pauses, localManifest, manifestWrites, prevFailed,
                 seen, lastError, bvars, ovars>>

\* lines 545 and 645-649: writing local-manifest.json throws, main() rejects;
\* the file holds no new document
WriteManifestThrows ==
  /\ pc = "loop"
  /\ BatchLoopEnded
  /\ pc' = "exited"
  /\ exitCode' = 1
  /\ fatal' = "writeFile"
  /\ UNCHANGED <<manifestPresent, imageEntries, concurrency, files, run, i, st,
                 attempt, timer, stalled, results, completed, requests, opened,
                 delays, pauses, localManifest, manifestWrites, prevFailed,
                 seen, lastError, bvars, ovars>>

FaultNext ==
  \/ Next
  \/ FetchUnavailable
  \/ ManifestUnreadable
  \/ MkdirThrows
  \/ WriteManifestThrows

\* One download run in an environment where the runtime may lack fetch and
\* the file-system calls of main() may throw.
FaultSpec == Init /\ [][FaultNext]_vars

\* ====================================================== the build run
\* A scanned URL: a photo page URL with a slug before the identifier
\* ("slug"), a photo page URL made of the identifier alone ("bare"), or an
\* URL of the image host, which names no page ("cdn").  id is the 11-character
\* token the URL ends with.
UrlKinds == {"slug", "bare", "cdn"}
Urls == [kind : UrlKinds, id : 1..MaxPhotos]

NoPhotoId == 0

\* extractPhotoId, lines 215-246: the page patterns give the identifier, any
\* other URL gives null
extractPhotoId(url) ==
  IF url.kind \in {"slug", "bare"} THEN url.id ELSE NoPhotoId

\* sequences over S of length n without a repeated element
RECURSIVE Arrangements(_, _)
Arrangements(S, n) ==
  IF n = 0 THEN {<<>>}
  ELSE UNION {{Append(q, x) : x \in S \ SeqToSet(q)} : q \in Arrangements(S, n - 1)}

\* outcomes of the read request of fetchImageData: a photo document ("ok"),
\* a document without its user part ("noUser"), an empty document ("null"),
\* a non-success status ("status"), the 403 of the rate limit ("rateLimit"),
\* a rejected fetch ("throws")
ReadOutcomes == {"ok", "noUser", "null", "status", "rateLimit", "throws"}

\* outcomes of the tracking request: any response, or a rejected fetch
TrackOutcomes == {"ok", "status", "throws"}

IdleCall == [photoId |-> 0, at |-> "idle", read |-> "none", track |-> "none",
             nreads |-> 0, ntracks |-> 0, result |-> "none"]

\* the manifest document of lines 127-146 (31-48 and 74-82 for the empty ones)
ManifestDoc(images, total, ok, bad, fallback) ==
  [images |-> images,
   stats |-> [total_found |-> total, successfully_cached |-> ok,
              failed_to_cache |-> bad],
   fallback_mode |-> fallback]

\* the imageData of lines 466-481
ImageData(photoId) == [id |-> photoId]

\* the manifest file an earlier build left, keyed by the given identifiers
PreviousManifest(ids) ==
  ManifestDoc([p \in ids |-> ImageData(p)], Cardinality(ids),
              Cardinality(ids), 0, FALSE)

BuildInit ==
  /\ accessKey \in BOOLEAN
  /\ \E n \in 0..MaxUrls : imageUrls \in Arrangements(Urls, n)
  /\ bpc = "start"
  /\ idx = 1
  /\ imageManifest = <<>>
  /\ cached = 0
  /\ failed = 0
  /\ call = IdleCall
  /\ reads = [p \in 1..MaxPhotos |-> 0]
  /\ tracks = [p \in 1..MaxPhotos |-> 0]
  /\ gotData = {}
  /\ previousImages \in {{}, 1..MaxPhotos}
  /\ remoteManifest = IF previousImages = {} THEN {}
                      ELSE {PreviousManifest(previousImages)}
  /\ remoteWrites = 0
  /\ buildExit = -1

\* the download script is not running
DownloadIdle ==
  /\ manifestPresent = FALSE
  /\ imageEntries = <<>>
  /\ concurrency = DefaultConcurrency
  /\ files = [p \in PhotoIds |-> "absent"]
  /\ run = 1
  /\ localManifest = {}
  /\ prevFailed = -1
  /\ FreshRun(0)

\* a run without access key that gives up
FallbackThrows ==
  /\ bpc = "start"
  /\ ~accessKey
  /\ bpc' = "exited"
  /\ buildExit' = 1
  /\ UNCHANGED <<previousImages, accessKey, imageUrls, idx, imageManifest, cached, failed, call,
                 reads, tracks, gotData, remoteManifest, remoteWrites,
                 dvars, ovars>>

\* main, lines 25-62: no access key, the fallback manifest is written
FallbackManifest ==
  /\ bpc = "start"
  /\ ~accessKey
  /\ remoteManifest' = {ManifestDoc(<<>>, 0, 0, 0, TRUE)}
  /\ remoteWrites' = remoteWrites + 1
  /\ bpc' = "exited"
  /\ buildExit' = 0
  /\ UNCHANGED <<previousImages, accessKey, imageUrls, idx, imageManifest, cached, failed, call,
                 reads, tracks, gotData, dvars, ovars>>

\* main, lines 66-93: the scan found nothing, an empty manifest is written
EmptyScan ==
  /\ bpc = "start"
  /\ accessKey
  /\ imageUrls = <<>>
  /\ remoteManifest' = {ManifestDoc(<<>>, 0, 0, 0, FALSE)}
  /\ remoteWrites' = remoteWrites + 1
  /\ bpc' = "exited"
  /\ buildExit' = 0
  /\ UNCHANGED <<previousImages, accessKey, imageUrls, idx, imageManifest, cached, failed, call,
                 reads, tracks, gotData, dvars, ovars>>

\* main, lines 95-104: the loop over the scanned URLs begins
StartFetching ==
  /\ bpc = "start"
  /\ accessKey
  /\ imageUrls # <<>>
  /\ bpc' = "loop"
  /\ UNCHANGED <<previousImages, accessKey, imageUrls, idx, imageManifest, cached, failed, call,
                 reads, tracks, gotData, remoteManifest, remoteWrites,
                 buildExit, dvars, ovars>>

\* main, lines 107-112: no identifier in the URL
Unresolvable ==
  /\ bpc = "loop"
  /\ idx <= Len(imageUrls)
  /\ extractPhotoId(imageUrls[idx]) = NoPhotoId
  /\ failed' = failed + 1
  /\ idx' = idx + 1
  /\ UNCHANGED <<previousImages, accessKey, imageUrls, bpc, imageManifest, cached, call, reads,
                 tracks, gotData, remoteManifest, remoteWrites, buildExit,
                 dvars, ovars>>

\* main, line 114, and fetchImageData, lines 427-435: the read request
CallFetchImageData ==
  /\ bpc = "loop"
  /\ idx <= Len(imageUrls)
  /\ extractPhotoId(imageUrls[idx]) # NoPhotoId
  /\ LET photoId == extractPhotoId(imageUrls[idx]) IN
       /\ call' = [IdleCall EXCEPT !.photoId = photoId, !.at = "read",
                                   !.nreads = 1]
       /\ reads' = [reads EXCEPT ![photoId] = @ + 1]
  /\ bpc' = "fetch"
  /\ UNCHANGED <<previousImages, accessKey, imageUrls, idx, imageManifest, cached, failed,
                 tracks, gotData, remoteManifest, remoteWrites, buildExit,
                 dvars, ovars>>

\* the null that fetchImageData returns
NullData == [id |-> NoPhotoId]

\* main, lines 115-120, that stores whatever the call returned
FetchReturnsUnchecked(photoId, data) ==
  /\ imageManifest' = [p \in DOMAIN imageManifest \cup {photoId} |->
                          IF p = photoId THEN data ELSE imageManifest[p]]
  /\ cached' = cached + 1
  /\ UNCHANGED failed

\* main, lines 115-120: data is stored under the identifier, null is counted
FetchReturns(photoId, data) ==
  IF data # NullData
  THEN /\ imageManifest' = [p \in DOMAIN imageManifest \cup {photoId} |->
                               IF p = photoId THEN data ELSE imageManifest[p]]
       /\ cached' = cached + 1
       /\ UNCHANGED failed
  ELSE /\ failed' = failed + 1
       /\ UNCHANGED <<imageManifest, cached>>

\* fetchImageData, lines 437-453 and 485-488: the read request gives no
\* photo; null is returned
ReadFails(outcome) ==
  /\ bpc = "fetch"
  /\ call.at = "read"
  /\ outcome \in {"null", "status", "rateLimit", "throws"}
  /\ call' = [call EXCEPT !.at = "returned", !.read = outcome,
                          !.result = "null"]
  /\ FetchReturns(call.photoId, NullData)
  /\ bpc' = "delay"
  /\ UNCHANGED <<previousImages, accessKey, imageUrls, idx, reads, tracks, gotData,
                 remoteManifest, remoteWrites, buildExit, dvars, ovars>>

\* fetchImageData, lines 449-464, and triggerDownloadTracking, 496-502: the
\* photo document arrives, the tracking request is issued
ReadSucceeds(outcome) ==
  /\ bpc = "fetch"
  /\ call.at = "read"
  /\ outcome \in {"ok", "noUser"}
  /\ call' = [call EXCEPT !.at = "track", !.read = outcome,
                          !.ntracks = @ + 1]
  /\ tracks' = [tracks EXCEPT ![call.photoId] = @ + 1]
  /\ UNCHANGED <<previousImages, accessKey, imageUrls, bpc, idx, imageManifest, cached, failed,
                 reads, gotData, remoteManifest, remoteWrites, buildExit,
                 dvars, ovars>>

\* a tracking call that is issued again when it fails
TrackingRetried(outcome) ==
  /\ bpc = "fetch"
  /\ call.at = "track"
  /\ outcome \in TrackOutcomes
  /\ IF outcome = "ok"
     THEN /\ call' = [call EXCEPT !.at = "returned", !.track = outcome,
                                  !.result = "data"]
          /\ gotData' = gotData \cup {call.photoId}
          /\ FetchReturns(call.photoId, ImageData(call.photoId))
          /\ bpc' = "delay"
          /\ UNCHANGED tracks
     ELSE /\ call.ntracks <= 1
          /\ call' = [call EXCEPT !.track = outcome, !.ntracks = @ + 1]
          /\ tracks' = [tracks EXCEPT ![call.photoId] = @ + 1]
          /\ UNCHANGED <<gotData, imageManifest, cached, failed, bpc>>
  /\ UNCHANGED <<previousImages, accessKey, imageUrls, idx, reads, remoteManifest,
                 remoteWrites, buildExit, dvars, ovars>>

\* triggerDownloadTracking, lines 497-507, and fetchImageData, lines 466-488:
\* the tracking request ends, whatever its outcome; the metadata is built and
\* returned, or building it throws and null is returned
TrackingEnds(outcome) ==
  /\ bpc = "fetch"
  /\ call.at = "track"
  /\ outcome \in TrackOutcomes
  /\ IF call.read = "ok"
     THEN /\ call' = [call EXCEPT !.at = "returned", !.track = outcome,
                                  !.result = "data"]
          /\ gotData' = gotData \cup {call.photoId}
          /\ FetchReturns(call.photoId, ImageData(call.photoId))
     ELSE /\ call' = [call EXCEPT !.at = "returned", !.track = outcome,
                                  !.result = "null"]
          /\ UNCHANGED gotData
          /\ FetchReturns(call.photoId, NullData)
  /\ bpc' = "delay"
  /\ UNCHANGED <<previousImages, accessKey, imageUrls, idx, reads, tracks, remoteManifest,
                 remoteWrites, buildExit, dvars, ovars>>

\* main, line 123: the delay between two URLs
DelayDone ==
  /\ bpc = "delay"
  /\ idx' = idx + 1
  /\ bpc' = "loop"
  /\ UNCHANGED <<previousImages, accessKey, imageUrls, imageManifest, cached, failed, call,
                 reads, tracks, gotData, remoteManifest, remoteWrites,
                 buildExit, dvars, ovars>>

\* images that add this run's data to what the manifest file held
ManifestImagesPatched ==
  [p \in previousImages \cup DOMAIN imageManifest |->
     IF p \in DOMAIN imageManifest THEN imageManifest[p] ELSE ImageData(p)]

\* line 130: the images of the manifest are those of this run
ManifestImages == imageManifest

\* main, lines 126-174: the loop is over, the manifest is written
WriteManifest ==
  /\ bpc = "loop"
  /\ idx > Len(imageUrls)
  /\ remoteManifest' =
       {ManifestDoc(ManifestImages, Len(imageUrls), cached, failed, FALSE)}
  /\ remoteWrites' = remoteWrites + 1
  /\ bpc' = "exited"
  /\ buildExit' = 0
  /\ UNCHANGED <<previousImages, accessKey, imageUrls, idx, imageManifest, cached, failed, call,
                 reads, tracks, gotData, dvars, ovars>>

BuildNext ==
  \/ FallbackManifest
  \/ EmptyScan
  \/ StartFetching
  \/ Unresolvable
  \/ CallFetchImageData
  \/ \E outcome \in ReadOutcomes : ReadFails(outcome)
  \/ \E outcome \in ReadOutcomes : ReadSucceeds(outcome)
  \/ \E outcome \in TrackOutcomes : TrackingEnds(outcome)
  \/ DelayDone
  \/ WriteManifest

InitBuild == BuildInit /\ DownloadIdle /\ OthersIdle

\* One build run, the provider answering each request in any way.
BuildSpec == InitBuild /\ [][BuildNext]_vars

\* ======================================================= the purge run
\* The clean-images script.  An item of the download directory is a regular
\* file with a plain name ("asset"), a regular file whose name starts with a
\* dot ("hidden") or a directory ("subdir"); local-manifest.json is kept
\* apart.  locked says that stat or unlink of the file is rejected.
ItemKinds == {"asset", "hidden", "subdir"}

Items ==
  {it \in [kind : ItemKinds, size : 1..MaxSize, locked : BOOLEAN] :
     it.kind # "asset" => (it.size = 1 /\ ~it.locked)}

\* a filter that takes every regular file but the manifest
IsAnyFile(it) == it.kind \in {"asset", "hidden"}

\* lines 67-71 and 124-128: isFile(), no leading dot, not the manifest
IsRemovable(it) == it.kind = "asset"

\* countFiles, lines 60-80
countFiles(items) ==
  Cardinality({k \in 1..Len(items) : IsRemovable(items[k])})

PurgeInit ==
  /\ dirExists \in BOOLEAN
  /\ \E n \in 0..MaxItems : dirItems \in [1..n -> Items]
  /\ onDisk = [k \in 1..Len(dirItems) |-> TRUE]
  /\ manifestOnDisk \in BOOLEAN
  /\ manifestLocked \in BOOLEAN
  /\ manifestLocked => manifestOnDisk
  /\ ~dirExists => (dirItems = <<>> /\ ~manifestOnDisk)
  /\ ppc = "start"
  /\ item = 1
  /\ fileCount = 0
  /\ manifestExists = FALSE
  /\ removedFiles = 0
  /\ freedSpace = 0
  /\ purgeExit = -1

\* a run that fails when the directory is missing
NoDirectoryFails ==
  /\ ppc = "start"
  /\ ~dirExists
  /\ ppc' = "exited"
  /\ purgeExit' = 1
  /\ UNCHANGED <<dirExists, dirItems, onDisk, manifestOnDisk, manifestLocked,
                 item, fileCount, manifestExists, removedFiles, freedSpace,
                 dvars, bvars, svars, tvars>>

\* main, lines 86-93: the download directory does not exist
NoDirectory ==
  /\ ppc = "start"
  /\ ~dirExists
  /\ ppc' = "exited"
  /\ purgeExit' = 0
  /\ UNCHANGED <<dirExists, dirItems, onDisk, manifestOnDisk, manifestLocked,
                 item, fileCount, manifestExists, removedFiles, freedSpace,
                 dvars, bvars, svars, tvars>>

\* main, lines 95-107: the files are counted and the manifest looked for
Analyze ==
  /\ ppc = "start"
  /\ dirExists
  /\ fileCount' = countFiles(dirItems)
  /\ manifestExists' = manifestOnDisk
  /\ ppc' = "analyzed"
  /\ UNCHANGED <<dirExists, dirItems, onDisk, manifestOnDisk, manifestLocked,
                 item, removedFiles, freedSpace, purgeExit,
                 dvars, bvars, svars, tvars>>

\* main, lines 109-112: nothing to remove
AlreadyClean ==
  /\ ppc = "analyzed"
  /\ fileCount = 0 /\ ~manifestExists
  /\ ppc' = "exited"
  /\ purgeExit' = 0
  /\ UNCHANGED <<dirExists, dirItems, onDisk, manifestOnDisk, manifestLocked,
                 item, fileCount, manifestExists, removedFiles, freedSpace,
                 dvars, bvars, svars, tvars>>

\* main, lines 114-121: the directory is listed, the loop begins
StartCleanup ==
  /\ ppc = "analyzed"
  /\ ~(fileCount = 0 /\ ~manifestExists)
  /\ ppc' = "loop"
  /\ item' = 1
  /\ UNCHANGED <<dirExists, dirItems, onDisk, manifestOnDisk, manifestLocked,
                 fileCount, manifestExists, removedFiles, freedSpace,
                 purgeExit, dvars, bvars, svars, tvars>>

\* main, lines 121 and 173-176: listing the directory throws
ListingThrows ==
  /\ ppc = "analyzed"
  /\ ~(fileCount = 0 /\ ~manifestExists)
  /\ ppc' = "exited"
  /\ purgeExit' = 1
  /\ UNCHANGED <<dirExists, dirItems, onDisk, manifestOnDisk, manifestLocked,
                 item, fileCount, manifestExists, removedFiles, freedSpace,
                 dvars, bvars, svars, tvars>>

\* main, lines 123-128: an item that is no removable file is passed over
SkipItem ==
  /\ ppc = "loop"
  /\ item <= Len(dirItems)
  /\ ~IsRemovable(dirItems[item])
  /\ item' = item + 1
  /\ UNCHANGED <<dirExists, dirItems, onDisk, manifestOnDisk, manifestLocked,
                 ppc, fileCount, manifestExists, removedFiles, freedSpace,
                 purgeExit, dvars, bvars, svars, tvars>>

\* main, lines 129-140: the file is removed and counted
RemoveItem ==
  /\ ppc = "loop"
  /\ item <= Len(dirItems)
  /\ IsRemovable(dirItems[item])
  /\ ~dirItems[item].locked
  /\ onDisk' = [onDisk EXCEPT ![item] = FALSE]
  /\ removedFiles' = removedFiles + 1
  /\ freedSpace' = freedSpace + dirItems[item].size
  /\ item' = item + 1
  /\ UNCHANGED <<dirExists, dirItems, manifestOnDisk, manifestLocked, ppc,
                 fileCount, manifestExists, purgeExit, dvars, bvars, svars, tvars>>

\* a removal failure that ends the run
RemoveFailsAborts ==
  /\ ppc = "loop"
  /\ item <= Len(dirItems)
  /\ IsRemovable(dirItems[item])
  /\ dirItems[item].locked
  /\ ppc' = "exited"
  /\ purgeExit' = 1
  /\ UNCHANGED <<dirExists, dirItems, onDisk, manifestOnDisk, manifestLocked,
                 item, fileCount, manifestExists, removedFiles, freedSpace,
                 dvars, bvars, svars, tvars>>

\* main, lines 131-143: stat or unlink throws, the warning is printed and
\* the loop goes on
RemoveFails ==
  /\ ppc = "loop"
  /\ item <= Len(dirItems)
  /\ IsRemovable(dirItems[item])
  /\ dirItems[item].locked
  /\ item' = item + 1
  /\ UNCHANGED <<dirExists, dirItems, onDisk, manifestOnDisk, manifestLocked,
                 ppc, fileCount, manifestExists, removedFiles, freedSpace,
                 purgeExit, dvars, bvars, svars, tvars>>

\* main, lines 147-160: the loop is over; the manifest is removed if it was
\* found, a failure of that removal is a warning
RemoveManifest ==
  /\ ppc = "loop"
  /\ item > Len(dirItems)
  /\ manifestOnDisk' = IF manifestExists /\ ~manifestLocked
                       THEN FALSE ELSE manifestOnDisk
  /\ ppc' = "report"
  /\ UNCHANGED <<dirExists, dirItems, onDisk, manifestLocked, item, fileCount,
                 manifestExists, removedFiles, freedSpace, purgeExit,
                 dvars, bvars, svars, tvars>>

\* main, lines 162-177: the results are printed, main returns
PurgeDone ==
  /\ ppc = "report"
  /\ ppc' = "exited"
  /\ purgeExit' = 0
  /\ UNCHANGED <<dirExists, dirItems, onDisk, manifestOnDisk, manifestLocked,
                 item, fileCount, manifestExists, removedFiles, freedSpace,
                 dvars, bvars, svars, tvars>>

PurgeNext ==
  \/ NoDirectory
  \/ Analyze
  \/ AlreadyClean
  \/ StartCleanup
  \/ ListingThrows
  \/ SkipItem
  \/ RemoveItem
  \/ RemoveFails
  \/ RemoveManifest
  \/ PurgeDone

\* the scripts other than the purge are not running
InitPurge == PurgeInit /\ DownloadIdle /\ BuildIdle /\ ScanIdle /\ ToolsIdle

\* One purge run over a download directory in any state.
PurgeSpec == InitPurge /\ [][PurgeNext]_vars

\* ============================================================ the scan
\* scanMdxFiles over a content root.  An entry of the root is a subdirectory
\* that holds one document ("dir"), a document ("mdx") or a file with
\* another extension ("other").  url is the Unsplash URL the document
\* references, NoUrl if it references none; readable says that readdir of
\* the subdirectory, or readFile of the document, succeeds.
EntryKinds == {"dir", "mdx", "other"}

NoUrl == 0

Entries ==
  {en \in [kind : EntryKinds, readable : BOOLEAN, url : 0..MaxPhotos] :
     en.kind = "other" => en.url = NoUrl}

ScanInit ==
  /\ \E n \in 0..MaxScanEntries : contentTree \in [1..n -> Entries]
  /\ spc = "scanning"
  /\ entry = 1
  /\ foundUrls = {}

\* scanDirectory, lines 528-530: neither a directory nor an .mdx file
ScanOther ==
  /\ spc = "scanning"
  /\ entry <= Len(contentTree)
  /\ contentTree[entry].kind = "other"
  /\ entry' = entry + 1
  /\ UNCHANGED <<contentTree, spc, foundUrls, dvars, bvars, pvars, tvars>>

\* scanDirectory, lines 523-565: the subdirectory is listed, or the document
\* is read, and the URL it references is added to the Set
ScanReadable ==
  /\ spc = "scanning"
  /\ entry <= Len(contentTree)
  /\ contentTree[entry].kind \in {"dir", "mdx"}
  /\ contentTree[entry].readable
  /\ foundUrls' = IF contentTree[entry].url = NoUrl THEN foundUrls
                  ELSE foundUrls \cup {contentTree[entry].url}
  /\ entry' = entry + 1
  /\ UNCHANGED <<contentTree, spc, dvars, bvars, pvars, tvars>>

\* scanDirectory, lines 523 and 531: readdir of the subdirectory or readFile
\* of the document rejects; nothing catches it, scanMdxFiles rejects
ScanThrows ==
  /\ spc = "scanning"
  /\ entry <= Len(contentTree)
  /\ contentTree[entry].kind \in {"dir", "mdx"}
  /\ ~contentTree[entry].readable
  /\ spc' = "rejected"
  /\ UNCHANGED <<contentTree, entry, foundUrls, dvars, bvars, pvars, tvars>>

\* scanMdxFiles, lines 569-570: the Set is returned as an array
ScanReturns ==
  /\ spc = "scanning"
  /\ entry > Len(contentTree)
  /\ spc' = "returned"
  /\ UNCHANGED <<contentTree, entry, foundUrls, dvars, bvars, pvars, tvars>>

ScanNext ==
  \/ ScanOther
  \/ ScanReadable
  \/ ScanThrows
  \/ ScanReturns

\* no script is running
InitScan == ScanInit /\ DownloadIdle /\ BuildIdle /\ PurgeIdle /\ ToolsIdle

\* One call of scanMdxFiles over a content root in any state.
ScanSpec == InitScan /\ [][ScanNext]_vars

\* ======================================================= URL functions
\* An URL of the image host, by the parts the library looks at: the host
\* ("malformed" is a string new URL() rejects) and the query parameters;
\* "absent" and 0 say that the parameter is not there, "empty" that it has
\* no value.  crop stands for fit, crop and cs together.
CdnUrls ==
  [host : {"images.unsplash.com", "plus.unsplash.com", "malformed"},
   ixid : {"absent", "empty", "M3wx"},
   ixlib : BOOLEAN,
   w : {0, 1080},
   q : {0, 75},
   fm : {"absent", "png"},
   crop : BOOLEAN,
   client_id : BOOLEAN]

\* the URLs the provider hands out
ProviderUrls == {u \in CdnUrls : ~u.client_id}

NoIxid == "null"

\* extractIxidFromUrl, lines 284-287: the value of ixid, which [^&]+ takes
\* only if it has a character
extractIxidFromUrl(url) ==
  IF url.ixid \in {"absent", "empty"} THEN NoIxid ELSE url.ixid

\* generateDownloadUrl, lines 261-267 (constructDownloadUrl, 275-277)
generateDownloadUrl(photoId, ixid) ==
  [page |-> "download", id |-> photoId,
   ixid |-> IF ixid # NoIxid THEN ixid ELSE "absent", force |-> TRUE]

\* an asset URL that is always the download URL
AssetUrlAlwaysDownload(photoId, optimized_url) ==
  [downloadUrl |->
     generateDownloadUrl(photoId, extractIxidFromUrl(optimized_url)),
   unwatermarked |-> TRUE]

\* downloadImagesBatch, lines 421-438: the URL an entry is downloaded from
\* and its isUnwatermarked flag
AssetUrl(photoId, optimized_url) ==
  LET ixid == extractIxidFromUrl(optimized_url) IN
    IF ixid # NoIxid
    THEN [downloadUrl |-> generateDownloadUrl(photoId, ixid),
          unwatermarked |-> TRUE]
    ELSE [downloadUrl |-> optimized_url, unwatermarked |-> FALSE]

AssetUrlInit ==
  /\ fnArgs \in [photoId : 1..MaxPhotos, optimized_url : CdnUrls]
  /\ fnResult = NoResult

\* lines 421-438 for one entry of the batch
ChooseAssetUrl ==
  /\ fnResult = NoResult
  /\ fnResult' = [returned |-> TRUE,
                  value |-> AssetUrl(fnArgs.photoId, fnArgs.optimized_url)]
  /\ UNCHANGED <<fnArgs, dvars, bvars, pvars, svars, cvars, gvars>>

AssetUrlNext == ChooseAssetUrl

InitAssetUrl ==
  /\ AssetUrlInit
  /\ DownloadIdle /\ BuildIdle /\ PurgeIdle /\ ScanIdle /\ CliIdle /\ OneIdle

\* The choice of the asset URL for one manifest entry, whatever its cached
\* optimized URL.
AssetUrlSpec == InitAssetUrl /\ [][AssetUrlNext]_vars

\* an URL builder that does not look at the secret key
createPremiumAlways(baseUrl, photoId, width, quality, secretKey) ==
  [baseUrl EXCEPT !.w = width, !.q = quality, !.crop = TRUE, !.fm = "jpg",
                  !.client_id = TRUE]

\* createPremiumUnsplashUrl, lines 297-350; secretKey says that
\* UNSPLASH_SECRET_KEY is set
createPremiumUnsplashUrl(baseUrl, photoId, width, quality, secretKey) ==
  IF ~secretKey THEN baseUrl
  ELSE IF baseUrl.host = "malformed" THEN baseUrl
  ELSE IF baseUrl.host = "plus.unsplash.com"
  THEN [host |-> baseUrl.host,
        ixid |-> IF baseUrl.ixid = "empty" THEN "absent" ELSE baseUrl.ixid,
        ixlib |-> baseUrl.ixlib,
        w |-> width, q |-> quality, fm |-> "jpg", crop |-> FALSE,
        client_id |-> TRUE]
  ELSE [baseUrl EXCEPT !.w = width, !.q = quality, !.crop = TRUE,
                       !.fm = "jpg", !.client_id = TRUE]

PremiumUrlInit ==
  /\ fnArgs \in [caller : {"direct", "fetchImageData"},
                baseUrl : ProviderUrls,
                photoId : 1..MaxPhotos,
                width : {800, 1200},
                quality : {60, 80},
                secretKey : BOOLEAN]
  /\ fnArgs.caller = "fetchImageData" =>
       (fnArgs.width = 1200 /\ fnArgs.quality = 80)
  /\ fnResult = NoResult

\* a call of createPremiumUnsplashUrl with any arguments
CallPremiumUrl ==
  /\ fnArgs.caller = "direct"
  /\ fnResult = NoResult
  /\ fnResult' = [returned |-> TRUE,
                  value |-> createPremiumUnsplashUrl(fnArgs.baseUrl,
                     fnArgs.photoId, fnArgs.width, fnArgs.quality,
                     fnArgs.secretKey)]
  /\ UNCHANGED <<fnArgs, dvars, bvars, pvars, svars, cvars, gvars>>

\* fetchImageData, lines 455-468: optimized_url is the premium URL made from
\* photo.urls.regular with width 1200 and quality 80
StoreOptimizedUrl ==
  /\ fnArgs.caller = "fetchImageData"
  /\ fnResult = NoResult
  /\ fnResult' = [returned |-> TRUE,
                  value |-> createPremiumUnsplashUrl(fnArgs.baseUrl,
                     fnArgs.photoId, 1200, 80, fnArgs.secretKey)]
  /\ UNCHANGED <<fnArgs, dvars, bvars, pvars, svars, cvars, gvars>>

PremiumUrlNext ==
  \/ CallPremiumUrl
  \/ StoreOptimizedUrl

InitPremiumUrl ==
  /\ PremiumUrlInit
  /\ DownloadIdle /\ BuildIdle /\ PurgeIdle /\ ScanIdle /\ CliIdle /\ OneIdle

\* One call of createPremiumUnsplashUrl, direct or from fetchImageData, with
\* or without the secret key.
PremiumUrlSpec == InitPremiumUrl /\ [][PremiumUrlNext]_vars

\* ============================================= the URL-conversion command
\* unsplash-url-to-download.js.  The command line is the flags and the first
\* argument that is no flag; MissingUrl stands for a command line without
\* such an argument.
MissingUrl == [kind |-> "missing", id |-> NoPhotoId]

CliInit ==
  /\ cliArgs \in [help : BOOLEAN, json : BOOLEAN, skipIxid : BOOLEAN,
                 url : Urls \cup {MissingUrl}]
  /\ cpc = "start"
  /\ cliResult = "none"
  /\ cliOutput = "none"
  /\ cliExit = -1

\* lines 121-125: the runtime has no fetch
CliFetchUnavailable ==
  /\ cpc = "start"
  /\ cpc' = "exited"
  /\ cliOutput' = "no fetch"
  /\ cliExit' = 1
  /\ UNCHANGED <<cliArgs, cliResult, dvars, bvars, pvars, svars, fvars, gvars>>

\* runCLI, lines 34-52: the help text is printed, runCLI returns
CliHelp ==
  /\ cpc = "start"
  /\ cliArgs.help
  /\ cpc' = "exited"
  /\ cliOutput' = "help"
  /\ cliExit' = 0
  /\ UNCHANGED <<cliArgs, cliResult, dvars, bvars, pvars, svars, fvars, gvars>>

\* runCLI, lines 56-61: no URL argument
CliNoUrl ==
  /\ cpc = "start"
  /\ ~cliArgs.help
  /\ cliArgs.url = MissingUrl
  /\ cpc' = "exited"
  /\ cliOutput' = "usage"
  /\ cliExit' = 1
  /\ UNCHANGED <<cliArgs, cliResult, dvars, bvars, pvars, svars, fvars, gvars>>

\* convertToDownloadUrl, lines 738-746: no identifier in the URL, the result
\* says success: false
ConvertNoPhotoId ==
  /\ cpc = "start"
  /\ ~cliArgs.help
  /\ cliArgs.url # MissingUrl
  /\ extractPhotoId(cliArgs.url) = NoPhotoId
  /\ cliResult' = "failure"
  /\ cpc' = "report"
  /\ UNCHANGED <<cliArgs, cliOutput, cliExit, dvars, bvars, pvars, svars,
                 fvars, gvars>>

\* convertToDownloadUrl, lines 748-752: the page is fetched for its ixid
ConvertFetchIxid ==
  /\ cpc = "start"
  /\ ~cliArgs.help
  /\ cliArgs.url # MissingUrl
  /\ extractPhotoId(cliArgs.url) # NoPhotoId
  /\ ~cliArgs.skipIxid
  /\ cpc' = "fetchIxid"
  /\ UNCHANGED <<cliArgs, cliResult, cliOutput, cliExit, dvars, bvars, pvars,
                 svars, fvars, gvars>>

\* outcomes of fetchIxidFromPage, lines 361-396: an ixid, null, or the
\* rejection of the timeout
IxidOutcomes == {"ixid", "null", "timeout"}

\* convertToDownloadUrl, lines 752-768: whatever fetchIxidFromPage gave, the
\* download URL is made and the result says success: true
ConvertWithIxid(outcome) ==
  /\ cpc = "fetchIxid"
  /\ outcome \in IxidOutcomes
  /\ cliResult' = "success"
  /\ cpc' = "report"
  /\ UNCHANGED <<cliArgs, cliOutput, cliExit, dvars, bvars, pvars, svars,
                 fvars, gvars>>

\* convertToDownloadUrl, lines 748-768 with fetchIxid false
ConvertSkipIxid ==
  /\ cpc = "start"
  /\ ~cliArgs.help
  /\ cliArgs.url # MissingUrl
  /\ extractPhotoId(cliArgs.url) # NoPhotoId
  /\ cliArgs.skipIxid
  /\ cliResult' = "success"
  /\ cpc' = "report"
  /\ UNCHANGED <<cliArgs, cliOutput, cliExit, dvars, bvars, pvars, svars,
                 fvars, gvars>>

\* runCLI, lines 67-68 and 92-109: the conversion throws; the error is
\* printed, as JSON or as text, and the command exits with code 1
ConvertRaises ==
  /\ cpc \in {"start", "fetchIxid"}
  /\ ~cliArgs.help
  /\ cliArgs.url # MissingUrl
  /\ cliResult' = "raised"
  /\ cliOutput' = IF cliArgs.json THEN "json error" ELSE "error"
  /\ cpc' = "exited"
  /\ cliExit' = 1
  /\ UNCHANGED <<cliArgs, dvars, bvars, pvars, svars, fvars, gvars>>

\* runCLI, lines 70-71: the result is printed as JSON, whatever it says, and
\* runCLI returns
ReportJson ==
  /\ cpc = "report"
  /\ cliArgs.json
  /\ cliOutput' = "json result"
  /\ cpc' = "exited"
  /\ cliExit' = 0
  /\ UNCHANGED <<cliArgs, cliResult, dvars, bvars, pvars, svars, fvars, gvars>>

\* runCLI, lines 72-90: the result is printed as text; a failure exits with
\* code 1
ReportPlain ==
  /\ cpc = "report"
  /\ ~cliArgs.json
  /\ cliOutput' = IF cliResult = "success" THEN "result" ELSE "error"
  /\ cpc' = "exited"
  /\ cliExit' = IF cliResult = "success" THEN 0 ELSE 1
  /\ UNCHANGED <<cliArgs, cliResult, dvars, bvars, pvars, svars, fvars, gvars>>

CliNext ==
  \/ CliFetchUnavailable
  \/ CliHelp
  \/ CliNoUrl
  \/ ConvertNoPhotoId
  \/ ConvertFetchIxid
  \/ \E outcome \in IxidOutcomes : ConvertWithIxid(outcome)
  \/ ConvertSkipIxid
  \/ ConvertRaises
  \/ ReportJson
  \/ ReportPlain

InitCli ==
  /\ CliInit
  /\ DownloadIdle /\ BuildIdle /\ PurgeIdle /\ ScanIdle /\ FnIdle /\ OneIdle

\* One run of the URL-conversion command on any command line.
CliSpec == InitCli /\ [][CliNext]_vars

\* ============================================ the single-image downloader
\* unsplash-image-downloader.js.  A run of main() takes the default retries;
\* downloadImage is exported as well, and a direct call of it passes any
\* retries value and any path.
\* parseArguments, line 150: the values of --format
Formats == {"jpg", "jpeg", "png", "webp"}

\* downloadImage, lines 340-346: the extensions detected from a content type
DetectedExtensions == {"jpg", "png", "webp"}

OneInputs ==
  [caller : {"main", "direct"},
   url : [photo : BOOLEAN, ixid : BOOLEAN],
   format : Formats,
   existing : SUBSET Formats]

OneInit ==
  /\ oneArgs \in OneInputs
  /\ oneArgs.caller = "direct" => oneArgs.url = [photo |-> TRUE, ixid |-> TRUE]
  /\ oneRetries \in 1..MaxRetries
  /\ oneArgs.caller = "main" => oneRetries = retries
  /\ oneDisk = [f \in Formats |->
                  IF f \in oneArgs.existing THEN "old" ELSE "absent"]
  /\ opc = IF oneArgs.caller = "main" THEN "start" ELSE "call"
  /\ oneCall = "none"
  /\ oneReads = 0
  /\ oneTracks = 0
  /\ oneChecked = "none"
  /\ oneTarget = IF oneArgs.caller = "main" THEN "none" ELSE oneArgs.format
  /\ oneAttempt = 0
  /\ oneAttempts = 0
  /\ oneDelays = <<>>
  /\ oneResult = "none"
  /\ oneExit = -1

\* main, lines 419-422: the runtime has no fetch
OneFetchUnavailable ==
  /\ opc = "start"
  /\ opc' = "exited"
  /\ oneExit' = 1
  /\ oneResult' = "no fetch"
  /\ UNCHANGED <<oneArgs, oneRetries, oneDisk, oneCall, oneReads, oneTracks,
                 oneChecked, oneTarget, oneAttempt, oneAttempts, oneDelays,
                 dvars, bvars, pvars, svars, fvars, cvars>>

\* main, lines 430-437: no identifier in the URL
OneNoPhotoId ==
  /\ opc = "start"
  /\ ~oneArgs.url.photo
  /\ opc' = "exited"
  /\ oneExit' = 1
  /\ UNCHANGED <<oneArgs, oneRetries, oneDisk, oneCall, oneReads, oneTracks,
                 oneChecked, oneTarget, oneAttempt, oneAttempts, oneDelays,
                 oneResult, dvars, bvars, pvars, svars, fvars, cvars>>

\* main, lines 442-449, and buildDownloadUrl, lines 183-194: with an ixid in
\* the URL buildDownloadUrl returns at once and main goes on to its own call
\* of fetchImageData; without one buildDownloadUrl calls fetchImageData first
OneBuildDownloadUrl ==
  /\ opc = "start"
  /\ oneArgs.url.photo
  /\ opc' = "read"
  /\ oneCall' = IF oneArgs.url.ixid THEN "main" ELSE "buildDownloadUrl"
  /\ UNCHANGED <<oneArgs, oneRetries, oneDisk, oneReads, oneTracks,
                 oneChecked, oneTarget, oneAttempt, oneAttempts, oneDelays,
                 oneResult, oneExit, dvars, bvars, pvars, svars, fvars, cvars>>

\* where a call of fetchImageData returns to: buildDownloadUrl, lines 194-311,
\* returns a URL to main, which calls fetchImageData itself at line 454;
\* main's own call is followed by the check of the output path
OneAfterFetch ==
  IF oneCall = "buildDownloadUrl"
  THEN opc' = "read" /\ oneCall' = "main"
  ELSE opc' = "check" /\ oneCall' = "none"

\* fetchImageData, lines 430-453 and 485-488: the read request is issued and
\* fails, or answers with an error status or no data; null is returned
OneReadFails ==
  /\ opc = "read"
  /\ oneReads' = oneReads + 1
  /\ OneAfterFetch
  /\ UNCHANGED <<oneArgs, oneRetries, oneDisk, oneTracks, oneChecked,
                 oneTarget, oneAttempt, oneAttempts, oneDelays, oneResult,
                 oneExit, dvars, bvars, pvars, svars, fvars, cvars>>

\* fetchImageData, lines 430-461: the read request answers with the photo
OneReadSucceeds ==
  /\ opc = "read"
  /\ oneReads' = oneReads + 1
  /\ opc' = "track"
  /\ UNCHANGED <<oneArgs, oneRetries, oneDisk, oneCall, oneTracks,
                 oneChecked, oneTarget, oneAttempt, oneAttempts, oneDelays,
                 oneResult, oneExit, dvars, bvars, pvars, svars, fvars, cvars>>

\* fetchImageData, lines 463-484, and triggerDownloadTracking, lines 496-507:
\* the tracking request is issued; whatever becomes of it, the image data is
\* returned
OneTrack ==
  /\ opc = "track"
  /\ oneTracks' = oneTracks + 1
  /\ OneAfterFetch
  /\ UNCHANGED <<oneArgs, oneRetries, oneDisk, oneReads, oneChecked,
                 oneTarget, oneAttempt, oneAttempts, oneDelays, oneResult,
                 oneExit, dvars, bvars, pvars, svars, fvars, cvars>>

\* main, lines 465-485: the output path ends in options.format; a file at
\* that path ends the run with code 1
OneExists ==
  /\ opc = "check"
  /\ oneDisk[oneArgs.format] # "absent"
  /\ oneChecked' = oneArgs.format
  /\ opc' = "exited"
  /\ oneExit' = 1
  /\ UNCHANGED <<oneArgs, oneRetries, oneDisk, oneCall, oneReads, oneTracks,
                 oneTarget, oneAttempt, oneAttempts, oneDelays, oneResult,
                 dvars, bvars, pvars, svars, fvars, cvars>>

\* main, lines 476-489: no file at the output path, downloadImage is called
\* with that path and no retries argument
OneCheckAbsent ==
  /\ opc = "check"
  /\ oneDisk[oneArgs.format] = "absent"
  /\ oneChecked' = oneArgs.format
  /\ oneTarget' = oneArgs.format
  /\ opc' = "call"
  /\ UNCHANGED <<oneArgs, oneRetries, oneDisk, oneCall, oneReads, oneTracks,
                 oneAttempt, oneAttempts, oneDelays, oneResult, oneExit,
                 dvars, bvars, pvars, svars, fvars, cvars>>

\* downloadImage, lines 317-330: the loop starts with attempt 1 and issues
\* the request
OneEnterLoop ==
  /\ opc = "call"
  /\ oneAttempt' = 1
  /\ oneAttempts' = oneAttempts + 1
  /\ opc' = "attempt"
  /\ UNCHANGED <<oneArgs, oneRetries, oneDisk, oneCall, oneReads, oneTracks,
                 oneChecked, oneTarget, oneDelays, oneResult, oneExit,
                 dvars, bvars, pvars, svars, fvars, cvars>>

\* a test for the last attempt that is one attempt late
IsLastAttemptLate(a, r) == a = r + 1

\* line 374: attempt === retries
IsLastAttempt(a, r) == a = r

\* downloadImage, lines 371-384: the catch block.  The last attempt returns
\* the failure; any other attempt waits 1000 * attempt before the next one.
OneCatch ==
  IF IsLastAttempt(oneAttempt, oneRetries)
  THEN /\ oneResult' = "failure"
       /\ opc' = "returned"
       /\ UNCHANGED oneDelays
  ELSE /\ oneDelays' = Append(oneDelays, BackoffDelay(oneAttempt))
       /\ opc' = "backoff"
       /\ UNCHANGED oneResult

\* downloadImage, lines 325-337: the request fails, is aborted by the timer,
\* or answers with an error status
OneRequestFails ==
  /\ opc = "attempt"
  /\ OneCatch
  /\ UNCHANGED <<oneArgs, oneRetries, oneDisk, oneCall, oneReads, oneTracks,
                 oneChecked, oneTarget, oneAttempt, oneAttempts, oneExit,
                 dvars, bvars, pvars, svars, fvars, cvars>>

\* downloadImage, lines 333-358: the response arrives; the timer is cleared,
\* the extension of the path is replaced by the one detected from the
\* content type, and the file at that path is opened for writing
OneResponseOk(detectedExtension) ==
  /\ opc = "attempt"
  /\ detectedExtension \in DetectedExtensions
  /\ oneTarget' = detectedExtension
  /\ oneDisk' = [oneDisk EXCEPT ![detectedExtension] = "partial"]
  /\ opc' = "body"
  /\ UNCHANGED <<oneArgs, oneRetries, oneCall, oneReads, oneTracks,
                 oneChecked, oneAttempt, oneAttempts, oneDelays, oneResult,
                 oneExit, dvars, bvars, pvars, svars, fvars, cvars>>

\* downloadImage, lines 359-370: the body is written, the result says success
OneBodyComplete ==
  /\ opc = "body"
  /\ oneDisk' = [oneDisk EXCEPT ![oneTarget] = "new"]
  /\ oneResult' = "success"
  /\ opc' = "returned"
  /\ UNCHANGED <<oneArgs, oneRetries, oneCall, oneReads, oneTracks,
                 oneChecked, oneTarget, oneAttempt, oneAttempts, oneDelays,
                 oneExit, dvars, bvars, pvars, svars, fvars, cvars>>

\* downloadImage, lines 359 and 371-384: the body stream fails
OneBodyFails ==
  /\ opc = "body"
  /\ OneCatch
  /\ UNCHANGED <<oneArgs, oneRetries, oneDisk, oneCall, oneReads, oneTracks,
                 oneChecked, oneTarget, oneAttempt, oneAttempts, oneExit,
                 dvars, bvars, pvars, svars, fvars, cvars>>

\* downloadImage, lines 318 and 383: the wait is over, attempt++ and the loop
\* condition attempt <= retries; a loop that ends returns nothing
OneBackoffDone ==
  /\ opc = "backoff"
  /\ oneAttempt' = oneAttempt + 1
  /\ IF oneAttempt + 1 <= oneRetries
     THEN /\ oneAttempts' = oneAttempts + 1
          /\ opc' = "attempt"
          /\ UNCHANGED oneResult
     ELSE /\ oneResult' = "undefined"
          /\ opc' = "returned"
          /\ UNCHANGED oneAttempts
  /\ UNCHANGED <<oneArgs, oneRetries, oneDisk, oneCall, oneReads, oneTracks,
                 oneChecked, oneTarget, oneDelays, oneExit,
                 dvars, bvars, pvars, svars, fvars, cvars>>

\* main, lines 489-502: success ends the run with code 0, failure with code 1
OneProcessExit ==
  /\ opc = "returned"
  /\ oneArgs.caller = "main"
  /\ oneExit' = IF oneResult = "success" THEN 0 ELSE 1
  /\ opc' = "exited"
  /\ UNCHANGED <<oneArgs, oneRetries, oneDisk, oneCall, oneReads, oneTracks,
                 oneChecked, oneTarget, oneAttempt, oneAttempts, oneDelays,
                 oneResult, dvars, bvars, pvars, svars, fvars, cvars>>

OneNext ==
  \/ OneFetchUnavailable
  \/ OneNoPhotoId
  \/ OneBuildDownloadUrl
  \/ OneReadFails
  \/ OneReadSucceeds
  \/ OneTrack
  \/ OneExists
  \/ OneCheckAbsent
  \/ OneEnterLoop
  \/ OneRequestFails
  \/ \E detectedExtension \in DetectedExtensions :
       OneResponseOk(detectedExtension)
  \/ OneBodyComplete
  \/ OneBodyFails
  \/ OneBackoffDone
  \/ OneProcessExit

InitOne ==
  /\ OneInit
  /\ DownloadIdle /\ BuildIdle /\ PurgeIdle /\ ScanIdle /\ FnIdle /\ CliIdle

\* One run of the single-image downloader, or one direct call of its
\* downloadImage.
OneSpec == InitOne /\ [][OneNext]_vars

\* ================================================================ claims
SuccessfulIds == {x.photoId : x \in SeqToSet(results.successful)}
FailedIds == {x.photoId : x \in SeqToSet(results.failed)}
SkippedIds == {x.photoId : x \in SeqToSet(results.skipped)}
Done == {e \in Tasks : st[e] = "done"}
NumWindows == (N + concurrency - 1) \div concurrency
BatchReturned == pc \in {"loop", "report", "exited"} /\ N > 0 /\ i >= N

\* C1: at every moment of a run the number of entries whose transfer has
\* started and has not yet produced a result is at most the concurrency.
C1_ConcurrencyCeiling == Cardinality(InFlight) <= concurrency

\* C1 witness: a full window is in flight while a further entry that needs a
\* transfer is waiting.
C1_Witness ==
  /\ Cardinality(InFlight) = concurrency
  /\ \E e \in Tasks : st[e] = "pending" /\ ~FileExists(e)

\* C2: entries are processed in consecutive windows of `concurrency` entries
\* in manifest order with a barrier between windows: no entry of a later
\* window has begun its check or transfer while an entry of an earlier window
\* has no result, the entries being checked or transferred are those of one
\* window, progress updates are those of finished entries (so the updates of
\* a window precede those of the next), and the pause has been taken after
\* every window but the last.
C2_WindowBarrier ==
  /\ \A e, f \in Tasks :
       (WindowOf(e) < WindowOf(f) /\ st[f] # "pending") => st[e] = "done"
  /\ \A e, f \in Tasks :
       (e < f /\ WindowOf(e) = WindowOf(f) /\ st[f] # "pending")
          => st[e] # "pending"
  /\ completed = Cardinality(Done)
  /\ pc = "await" => pauses = i \div concurrency
  /\ pc = "pause" => pauses = i \div concurrency + 1
  /\ BatchReturned => pauses = NumWindows - 1

\* C2 witness: the run is over, it had at least two windows, and a window
\* held entries that ended at different attempts.
C2_Witness ==
  /\ BatchReturned
  /\ NumWindows >= 2
  /\ pauses >= 1
  /\ \E e, f \in Tasks : WindowOf(e) = WindowOf(f) /\ attempt[e] # attempt[f]

\* an entry whose destination file existed when it was checked is recorded
\* in `skipped` with the given reason, no network request is issued for it
\* and its file is neither written nor overwritten during the run
SkippedWithReason(reason) ==
  \A e \in Tasks :
    seen[e] \in {"partial", "complete"} =>
      /\ [photoId |-> imageEntries[e], reason |-> reason]
            \in SeqToSet(results.skipped)
      /\ imageEntries[e] \notin SuccessfulIds \cup FailedIds
      /\ requests[e] = 0
      /\ ~opened[e]
      /\ files[imageEntries[e]] = seen[e]

\* C3 as stated: an entry whose destination file exists when the batch
\* downloader checks it is recorded in `skipped` with the reason
\* "already exists"; no network request is issued for it and its file is
\* neither written nor overwritten during the run.
C3_SkippedReasonLowerCase == SkippedWithReason("already exists")

\* C3 amended: an entry whose destination file exists when the batch
\* downloader checks it is recorded in `skipped` with the reason
\* "Already exists"; no network request is issued for it and its file is
\* neither written nor overwritten during the run.
C3_ExistingFileSkipped == SkippedWithReason("Already exists")

\* C3 witness: an entry was skipped while another entry of the run was
\* downloaded.
C3_Witness ==
  /\ pc = "exited"
  /\ \E e, f \in Tasks :
       /\ seen[e] = "complete"
       /\ imageEntries[e] \in SkippedIds
       /\ imageEntries[f] \in SuccessfulIds

\* C4 as stated: a second run against the same manifest and directory issues
\* no network transfer and reports every entry as skipped.
C4_SecondRunAllSkipped ==
  run >= 2 =>
    /\ \A e \in Tasks : requests[e] = 0
    /\ BatchReturned => SkippedIds = SeqToSet(imageEntries)

\* C4 amended: when the previous run recorded no entry as failed, the next
\* run against the same manifest and directory issues no network transfer
\* and reports every entry as skipped.
C4_RerunAfterCleanRunAllSkipped ==
  (run >= 2 /\ prevFailed = 0) =>
    /\ \A e \in Tasks : requests[e] = 0
    /\ BatchReturned =>
         /\ SkippedIds = SeqToSet(imageEntries)
         /\ Len(results.skipped) = N
         /\ results.successful = <<>>
         /\ results.failed = <<>>

\* C4 witness: the first run downloaded every entry of a full manifest and
\* the second run has skipped them all.
C4_Witness ==
  /\ run = 2
  /\ prevFailed = 0
  /\ N = MaxEntries
  /\ pc = "loop"
  /\ i >= N
  /\ \E m \in localManifest : m.stats.downloaded = N
  /\ Len(results.skipped) = N

\* C5: with the default retry setting, an entry whose transfer fails on
\* attempts 1 and 2 and succeeds on attempt 3 is recorded as successful, and
\* exactly the delays 1000 ms then 2000 ms are observed between its attempts.
C5_ThirdAttemptSucceeds ==
  \A e \in Tasks :
    (st[e] = "done" /\ attempt[e] = 3 /\ opened[e]
       /\ files[imageEntries[e]] = "complete") =>
      /\ imageEntries[e] \in SuccessfulIds
      /\ imageEntries[e] \notin FailedIds \cup SkippedIds
      /\ requests[e] = 3
      /\ delays[e] = <<1000, 2000>>

\* C5 witness: an entry has succeeded on its third attempt.
C5_Witness ==
  \E e \in Tasks :
    /\ st[e] = "done"
    /\ attempt[e] = 3
    /\ files[imageEntries[e]] = "complete"
    /\ imageEntries[e] \in SuccessfulIds
    /\ Len(delays[e]) = 2

\* C6: a transfer error never aborts the batch: an entry whose every attempt
\* has failed is recorded in `failed` with the error message of its last
\* attempt, main() is still inside the batch or past it with every entry
\* holding exactly one result, and the local manifest is then written.
C6_FailureRecordedBatchGoesOn ==
  /\ \A e \in Tasks :
       (st[e] = "done" /\ lastError[e] # "none") =>
         /\ [photoId |-> imageEntries[e], error |-> lastError[e]]
               \in SeqToSet(results.failed)
         /\ imageEntries[e] \notin SuccessfulIds \cup SkippedIds
         /\ requests[e] = retries
  /\ \A e \in Tasks :
       st[e] = "done" =>
         imageEntries[e] \in SuccessfulIds \cup FailedIds \cup SkippedIds
  /\ (pc \in {"report", "exited"} /\ manifestPresent /\ N > 0) =>
       /\ Done = Tasks
       /\ Len(results.successful) + Len(results.failed)
            + Len(results.skipped) = N
       /\ manifestWrites = 1

\* C6 witness: an entry of the first window failed on all its attempts, an
\* entry of a later window was downloaded afterwards, and the run has ended.
C6_Witness ==
  /\ pc = "exited"
  /\ \E e, f \in Tasks :
       /\ WindowOf(e) < WindowOf(f)
       /\ imageEntries[e] \in FailedIds
       /\ imageEntries[f] \in SuccessfulIds

\* C7: every download run terminates: each transfer attempt completes or is
\* aborted by its per-request timeout, so every entry eventually receives a
\* result and the run ends, also when the remote side stops sending data
\* before the response headers or in the middle of the body.
C7_RunTerminates == <>(pc = "exited")

\* What holds of C7: a run that does not end has a transfer whose body the
\* remote side has stopped sending.
TerminatesUnlessBodyStalls ==
  <>(pc = "exited" \/ \E e \in Tasks : st[e] = "body" /\ stalled[e])

\* C11: every identifier keyed in the written local manifest is a key of the
\* images mapping of the remote manifest the run loaded, and no identifier
\* whose transfer failed is a key of the local manifest.
C11_LocalKeysFromRemote ==
  \A m \in localManifest :
    /\ DOMAIN m.images \subseteq SeqToSet(imageEntries)
    /\ DOMAIN m.images \cap FailedIds = {}
    /\ pc \in {"report", "exited"} =>
         DOMAIN m.images = SuccessfulIds \cup SkippedIds

\* C11 witness: a run has ended whose remote manifest lacks an identifier,
\* one of its entries failed and its local manifest keys another entry.
C11_Witness ==
  /\ pc = "exited"
  /\ N < MaxEntries
  /\ FailedIds # {}
  /\ \E m \in localManifest : DOMAIN m.images # {}

\* C12: during a download run the local manifest file is written exactly
\* once and only after every window has completed; in no state of the run
\* does the file hold a manifest that describes only part of the entries.
C12_ManifestWrittenOnceAtEnd ==
  /\ manifestWrites <= 1
  /\ manifestWrites = 1 =>
       /\ Done = Tasks
       /\ i >= N
       /\ pc \in {"report", "exited"}
  /\ pc \in {"start", "loop", "await", "pause"} => manifestWrites = 0
  /\ (pc \in {"report", "exited"} /\ manifestPresent /\ N > 0) =>
       manifestWrites = 1
  /\ \A m \in localManifest :
       /\ m.stats.total_images = N
       /\ Cardinality(DOMAIN m.images) + m.stats.failed = N

\* C12 witness: a run of at least two windows has written its manifest.
C12_Witness ==
  /\ pc = "report"
  /\ NumWindows >= 2
  /\ manifestWrites = 1
  /\ localManifest # {}

\* C15: when the remote manifest file is absent the run ends before any
\* work: no transfer is issued, no asset file and no local manifest is
\* created, and the exit code is non-zero.
C15_MissingManifestFatal ==
  ~manifestPresent =>
    /\ pc \in {"start", "exited"}
    /\ \A e \in Tasks :
         st[e] = "pending" /\ requests[e] = 0 /\ ~opened[e]
    /\ \A p \in PhotoIds : files[p] # "partial"
    /\ results = [successful |-> <<>>, failed |-> <<>>, skipped |-> <<>>]
    /\ localManifest = {}
    /\ manifestWrites = 0
    /\ pc = "exited" => exitCode = 1

\* C15 witness: a run without remote manifest has exited through the check
\* of main().
C15_Witness ==
  /\ ~manifestPresent
  /\ pc = "exited"
  /\ fatal = "none"
  /\ exitCode = 1

\* the run exits non-zero only for one of the given causes besides a failed
\* entry and a missing manifest; a run that got through with every entry
\* successful or skipped exits zero; a run over a manifest with entries that
\* ended for none of the causes has written the local manifest
ExitCodeCauses(causes) ==
  /\ exitCode \in {-1, 0, 1}
  /\ pc = "exited" <=> exitCode # -1
  /\ exitCode = 1 =>
       FailedIds # {} \/ ~manifestPresent \/ fatal \in causes
  /\ (pc = "exited" /\ manifestPresent /\ fatal \notin causes
        /\ FailedIds = {}) => exitCode = 0
  /\ (pc = "exited" /\ manifestPresent /\ fatal \notin causes /\ N > 0) =>
       /\ manifestWrites = 1
       /\ localManifest = {LocalManifestOf(results)}

\* C16 as stated: a download run exits non-zero only when an entry ended in
\* `failed` or the remote manifest was missing or unreadable; a run in which
\* every entry ended successful or skipped exits zero; in both cases the
\* local manifest has been written before the exit when the manifest held
\* an entry.
C16_ExitNonZeroOnlyOnFailedOrManifest ==
  ExitCodeCauses({"manifest unreadable"})

\* C16 amended: a download run exits non-zero only when an entry ended in
\* `failed`, or the remote manifest was missing or unreadable, or the
\* runtime has no fetch, or creating the download directory or writing the
\* local manifest threw; a run that met none of these exits zero; a run over
\* a manifest with entries that met none of the thrown errors has written
\* the local manifest before the exit.
C16_ExitNonZeroOnFailedOrFatal ==
  ExitCodeCauses({"manifest unreadable", "fetch unavailable", "mkdir",
                  "writeFile"})

\* C16 witness: a run has written its local manifest and exited with code 1
\* because an entry failed while another was downloaded.
C16_Witness ==
  /\ pc = "exited"
  /\ exitCode = 1
  /\ fatal = "none"
  /\ FailedIds # {}
  /\ SuccessfulIds # {}
  /\ manifestWrites = 1

\* ----------------------------------------------------- build run claims
\* C8: a call of fetchImageData that returns metadata has issued exactly one
\* tracking request, after its read request succeeded; no call issues a
\* second tracking request, whatever the first one's outcome, and that
\* outcome does not change what the call returns; a call whose read request
\* gave no photo issues no tracking request.
C8_TrackingOncePerFetch ==
  /\ call.result = "data" =>
       /\ call.read = "ok"
       /\ call.nreads = 1
       /\ call.ntracks = 1
       /\ call.track \in TrackOutcomes
  /\ call.ntracks <= 1
  /\ call.ntracks = 1 => call.read \in {"ok", "noUser"}
  /\ call.read \in {"null", "status", "rateLimit", "throws"} =>
       /\ call.ntracks = 0
       /\ call.result = "null"
  /\ (call.at = "returned" /\ call.read = "ok") =>
       /\ call.result = "data"
       /\ call.photoId \in DOMAIN imageManifest
       /\ imageManifest[call.photoId] = ImageData(call.photoId)

\* C8 witness: a call has returned metadata although its tracking request
\* was rejected.
C8_Witness ==
  /\ call.at = "returned"
  /\ call.result = "data"
  /\ call.track = "throws"
  /\ tracks[call.photoId] = 1

\* C9: in one build run the read request and the tracking call are each
\* issued at most once per photo identifier, also when distinct scanned URLs
\* resolve to the same identifier.
C9_OncePerIdentifier ==
  \A p \in 1..MaxPhotos : reads[p] <= 1 /\ tracks[p] <= 1

ProcessedUrls == (idx - 1) + (IF bpc = "delay" THEN 1 ELSE 0)

\* C10: unresolvable URLs and provider errors never abort a build run: an
\* identifier whose read request fails is omitted from the manifest, every
\* remaining URL is still processed and the manifest is still written.
C10_FailedIdentifierOmitted ==
  /\ buildExit \in {-1, 0}
  /\ (call.at = "returned" /\ call.result = "null") =>
       call.photoId \notin DOMAIN imageManifest
  /\ (bpc = "exited" /\ accessKey) =>
       /\ idx = Len(imageUrls) + 1
       /\ remoteWrites = 1

\* What holds of C10 whatever the scanned URLs: the run never exits with an
\* error, a call that yields null stores nothing, the manifest holds exactly
\* the identifiers for which some call returned metadata, every URL is
\* processed and counted once, and the manifest is written once.
NullOutcomesRecovered ==
  /\ buildExit \in {-1, 0}
  /\ DOMAIN imageManifest = gotData
  /\ \A p \in DOMAIN imageManifest : imageManifest[p] = ImageData(p)
  /\ bpc \in {"loop", "fetch", "delay"} =>
       cached + failed = ProcessedUrls
  /\ (bpc = "exited" /\ accessKey) =>
       /\ idx = Len(imageUrls) + 1
       /\ cached + failed = Len(imageUrls)
       /\ remoteWrites = 1
       /\ \A m \in remoteManifest : DOMAIN m.images = gotData

\* C13: the remote manifest is regenerated wholesale on each build: the file
\* is written once, when the run ends and every fetch has returned; until
\* then it is what the previous build left; what is written holds exactly
\* the identifiers whose metadata fetch succeeded in this run, and nothing
\* of the previous manifest.
C13_ManifestRegenerated ==
  /\ remoteWrites <= 1
  /\ bpc # "exited" =>
       /\ remoteWrites = 0
       /\ remoteManifest \subseteq {PreviousManifest(previousImages)}
  /\ bpc = "exited" =>
       /\ remoteWrites = 1
       /\ call.at \in {"idle", "returned"}
       /\ accessKey => idx = Len(imageUrls) + 1
       /\ Cardinality(remoteManifest) = 1
       /\ \A m \in remoteManifest :
            /\ DOMAIN m.images = gotData
            /\ \A p \in gotData : m.images[p] = ImageData(p)

\* C13 witness: a build over a previous manifest has written a manifest that
\* holds some identifier and lacks one the previous manifest held.
C13_Witness ==
  /\ bpc = "exited"
  /\ previousImages # {}
  /\ gotData # {}
  /\ previousImages \ gotData # {}
  /\ \E m \in remoteManifest : DOMAIN m.images = gotData

CleanupEnded ==
  \/ ppc = "report"
  \/ /\ ppc = "exited"
     /\ purgeExit = 0
     /\ dirExists
     /\ ~(fileCount = 0 /\ ~manifestExists)

NothingLocked ==
  /\ ~manifestLocked
  /\ \A k \in 1..Len(dirItems) : ~dirItems[k].locked

\* the assets among the first k items whose removal is not rejected
Unlocked(k) ==
  {j \in 1..k : IsRemovable(dirItems[j]) /\ ~dirItems[j].locked}

RECURSIVE SizeOfUnlocked(_)
SizeOfUnlocked(k) ==
  IF k = 0 THEN 0
  ELSE SizeOfUnlocked(k - 1)
         + (IF k \in Unlocked(k) THEN dirItems[k].size ELSE 0)

\* the manifest is untouched while files are being removed, and when no
\* removal is rejected the finished cleanup has removed every file the
\* filter takes, counted each of them, and removed the manifest
PurgeRemoves(Filter(_)) ==
  /\ (ppc = "loop" /\ manifestExists) => manifestOnDisk
  /\ (CleanupEnded /\ NothingLocked) =>
       /\ \A k \in 1..Len(dirItems) : Filter(dirItems[k]) => ~onDisk[k]
       /\ removedFiles = countFiles(dirItems)
       /\ ~manifestOnDisk

\* C17 as stated: purge removes every regular file of the directory except
\* the local manifest, and only afterwards the manifest; over N asset files
\* and one manifest it removes N files, leaves no manifest and reports
\* removedFiles = N.
C17_EveryRegularFileRemoved == PurgeRemoves(IsAnyFile)

\* C17 amended: purge removes every regular file of the directory whose name
\* does not start with a dot, except the local manifest, and only afterwards
\* the manifest; files with a leading dot and subdirectories stay; over N
\* asset files and one manifest it removes N files, leaves no manifest and
\* reports removedFiles = N.
C17_EveryPlainFileRemoved ==
  /\ PurgeRemoves(IsRemovable)
  /\ \A k \in 1..Len(dirItems) :
       dirItems[k].kind \in {"hidden", "subdir"} => onDisk[k]

\* C17 witness: a purge over asset files, a file with a leading dot and the
\* manifest has ended.
C17_Witness ==
  /\ ppc = "exited"
  /\ CleanupEnded
  /\ NothingLocked
  /\ removedFiles = 2
  /\ \E k \in 1..Len(dirItems) : dirItems[k].kind = "hidden"
  /\ manifestExists
  /\ ~manifestOnDisk

\* C18: a failure to remove one file does not abort the purge: the loop goes
\* on, every other removable file is removed, the manifest is removed, the
\* file that could not be removed is counted neither in removedFiles nor in
\* the freed bytes, and the exit code is 0.
C18_RemovalFailureTolerated ==
  /\ ppc = "loop" =>
       /\ removedFiles = Cardinality(Unlocked(item - 1))
       /\ freedSpace = SizeOfUnlocked(item - 1)
       /\ purgeExit = -1
  /\ purgeExit = 1 => (item = 1 /\ removedFiles = 0 /\ ppc = "exited")
  /\ CleanupEnded =>
       /\ item = Len(dirItems) + 1
       /\ \A k \in 1..Len(dirItems) :
            IsRemovable(dirItems[k]) => (onDisk[k] <=> dirItems[k].locked)
       /\ removedFiles = Cardinality(Unlocked(Len(dirItems)))
       /\ freedSpace = SizeOfUnlocked(Len(dirItems))
       /\ (manifestExists /\ ~manifestLocked) => ~manifestOnDisk
       /\ ppc = "exited" => purgeExit = 0

\* C18 witness: a purge has ended with code 0 in which one file could not be
\* removed, a later file was removed and the manifest was removed.
C18_Witness ==
  /\ ppc = "exited"
  /\ purgeExit = 0
  /\ manifestExists
  /\ ~manifestOnDisk
  /\ \E j, k \in 1..Len(dirItems) :
       /\ j < k
       /\ IsRemovable(dirItems[j]) /\ dirItems[j].locked /\ onDisk[j]
       /\ IsRemovable(dirItems[k]) /\ ~onDisk[k]
       /\ freedSpace = dirItems[k].size

\* C19: purge of a directory that does not exist, or that holds no asset
\* file and no local manifest, is a no-op success: nothing is removed and
\* the exit code is 0.
C19_NothingToPurge ==
  (~dirExists \/ (countFiles(dirItems) = 0 /\ ~manifestOnDisk
                   /\ ~manifestExists)) =>
    /\ ppc \in {"start", "analyzed", "exited"}
    /\ \A k \in 1..Len(dirItems) : onDisk[k]
    /\ removedFiles = 0
    /\ freedSpace = 0
    /\ purgeExit \in {-1, 0}
    /\ ppc = "exited" => purgeExit = 0

\* C19 witness: a purge has ended over a directory that holds a file with a
\* leading dot and a subdirectory, but no asset file and no manifest.
C19_Witness ==
  /\ ppc = "exited"
  /\ purgeExit = 0
  /\ dirExists
  /\ Len(dirItems) >= 2
  /\ fileCount = 0
  /\ ~manifestExists

\* ----------------------------------------------------------- scan claims
\* the URLs referenced by the readable documents of the content root
ReadableUrls ==
  {contentTree[k].url : k \in {j \in 1..Len(contentTree) :
      /\ contentTree[j].kind \in {"dir", "mdx"}
      /\ contentTree[j].readable
      /\ contentTree[j].url # NoUrl}}

\* C20: a scan is not failed by one bad entry: when a subdirectory or a
\* file under the content root cannot be read, the entry is skipped and the
\* scan still returns the URLs referenced by every other readable document.
C20_BadEntrySkipped ==
  /\ spc # "rejected"
  /\ spc = "returned" => foundUrls = ReadableUrls

\* What holds of C20: a scan that returns has read every subdirectory and
\* document and returns the URLs of all of them; an unreadable file of
\* another extension does not matter; a scan that rejects stopped at an
\* unreadable subdirectory or document.
ScanReturnsAllOrRejects ==
  /\ spc = "returned" =>
       /\ \A k \in 1..Len(contentTree) :
            contentTree[k].kind \in {"dir", "mdx"} => contentTree[k].readable
       /\ foundUrls = ReadableUrls
  /\ spc = "rejected" =>
       /\ entry <= Len(contentTree)
       /\ contentTree[entry].kind \in {"dir", "mdx"}
       /\ ~contentTree[entry].readable

\* ------------------------------------------------------ URL function claims
\* the optimized URL carries an ixid: the parameter is there with a value
CarriesIxid(url) == url.ixid \notin {"absent", "empty"}

\* C21: for a batch entry the asset URL is the unwatermarked download URL
\* built from the identifier and the ixid whenever the cached optimized URL
\* carries an ixid, and the optimized URL itself otherwise; the unwatermarked
\* flag is true exactly in the first case.
C21_AssetUrlChoice ==
  fnResult.returned =>
    LET url == fnArgs.optimized_url
        res == fnResult.value IN
      /\ CarriesIxid(url) =>
           /\ res.downloadUrl = [page |-> "download", id |-> fnArgs.photoId,
                                 ixid |-> url.ixid, force |-> TRUE]
           /\ res.unwatermarked
      /\ ~CarriesIxid(url) =>
           /\ res.downloadUrl = url
           /\ ~res.unwatermarked
      /\ res.unwatermarked <=> CarriesIxid(url)

\* C21 witness: the asset URL was chosen for an entry whose optimized URL
\* carries the client_id and format parameters but no ixid.
C21_Witness ==
  /\ fnResult.returned
  /\ "optimized_url" \in DOMAIN fnArgs
  /\ fnArgs.optimized_url.ixid = "absent"
  /\ fnArgs.optimized_url.client_id
  /\ fnResult.value.downloadUrl = fnArgs.optimized_url

\* C22: with no secret key createPremiumUnsplashUrl returns its base URL
\* unchanged for every base URL, identifier, width and quality, and returns
\* rather than throws; so the optimized URL stored by fetchImageData is the
\* provider's regular URL.
C22_NoSecretUrlUnchanged ==
  (fnResult.returned /\ ~fnArgs.secretKey) =>
    fnResult.value = fnArgs.baseUrl

\* C22 witness: without secret key fetchImageData has stored the optimized
\* URL of a photo whose regular URL has parameters the premium URL would
\* replace.
C22_Witness ==
  /\ fnResult.returned
  /\ "caller" \in DOMAIN fnArgs
  /\ fnArgs.caller = "fetchImageData"
  /\ ~fnArgs.secretKey
  /\ fnArgs.baseUrl.host = "images.unsplash.com"
  /\ fnArgs.baseUrl.w = 1080
  /\ fnResult.value = fnArgs.baseUrl

\* ------------------------------------------- URL-conversion command claims
\* C23: the URL-conversion command exits with a non-zero code on every
\* unrecoverable failure: when no identifier can be extracted from the URL,
\* or the conversion raises, the exit code is non-zero in plain and in JSON
\* output mode.
C23_FailureExitsNonZero ==
  (cpc = "exited" /\ cliResult \in {"failure", "raised"}) => cliExit # 0

\* What holds of C23: a failure ends with code 0 only in JSON mode and only
\* when the conversion returned a result that says success: false; a
\* conversion that raised, a missing URL and every failure in plain mode
\* exit with code 1.
FailureExitsZeroOnlyInJson ==
  /\ (cpc = "exited" /\ cliResult = "raised") => cliExit = 1
  /\ (cpc = "exited" /\ cliResult = "failure" /\ ~cliArgs.json) =>
       cliExit = 1
  /\ (cpc = "exited" /\ cliResult = "failure" /\ cliArgs.json) =>
       (cliExit = 0 /\ cliOutput = "json result")
  /\ (cpc = "exited" /\ cliResult = "success") => cliExit = 0

\* ------------------------------------------- single-image downloader claims
\* C24: one run of the single-image downloader issues the download-tracking
\* request for its photo at most once, with or without an ixid in the URL.
C24_TracksAtMostOnce == oneTracks <= 1

\* What holds of C24: a URL with an ixid leads to at most one tracking
\* request, a URL without one to at most two, one for each call of
\* fetchImageData whose read succeeded.
TracksOncePerFetchCall ==
  /\ oneTracks <= oneReads
  /\ oneReads <= (IF oneArgs # <<>> /\ oneArgs.url.ixid THEN 1 ELSE 2)

\* C26: for every retries value r >= 1 downloadImage makes at most r
\* attempts, none after a success, waits attempt x 1000 ms only between a
\* failed attempt and the next one, never after the last, and what it
\* returns is a result that says success or failure.
C26_BoundedAttempts ==
  /\ [](/\ oneAttempts <= oneRetries
        /\ \A d \in 1..Len(oneDelays) : oneDelays[d] = d * 1000
        /\ opc \in {"attempt", "body"} => Len(oneDelays) = oneAttempts - 1
        /\ opc = "backoff" =>
             (Len(oneDelays) = oneAttempts /\ oneAttempts < oneRetries)
        /\ oneResult = "success" =>
             (opc \in {"returned", "exited"}
              /\ Len(oneDelays) = oneAttempts - 1)
        /\ oneResult = "failure" =>
             (oneAttempts = oneRetries /\ Len(oneDelays) = oneRetries - 1)
        /\ opc = "returned" => oneResult \in {"success", "failure"})
  /\ [][oneResult = "success" =>
          (oneAttempts' = oneAttempts /\ oneDelays' = oneDelays)]_vars

\* a call with retries = MaxRetries whose attempts all failed
C26_Witness ==
  /\ oneRetries = MaxRetries
  /\ opc = "returned"
  /\ oneResult = "failure"
  /\ oneAttempts = MaxRetries
  /\ Len(oneDelays) = MaxRetries - 1

\* C29: the single-image downloader never overwrites an existing file: a
\* file that exists at the path the transfer writes to, the path with the
\* detected extension included, is left as it was.
C29_NeverOverwrites ==
  (oneArgs # <<>> /\ oneArgs.caller = "main") =>
    \A f \in oneArgs.existing : oneDisk[f] = "old"

\* What holds of C29: a file at the path main() checked, the one that ends
\* in options.format, ends the run before any transfer.
CheckedPathKept ==
  (oneArgs # <<>> /\ oneArgs.caller = "main"
     /\ oneArgs.format \in oneArgs.existing) =>
    (/\ oneAttempts = 0
     /\ \A f \in oneArgs.existing : oneDisk[f] = "old")

\* ------------------------------------------------------ attribution claim
\* C25: every entry of the local manifest written by a download run records
\* the author of its image, also in a re-run over a directory that already
\* holds the files.
C25_EveryEntryHasAuthor ==
  \A m \in localManifest :
    \A p \in DOMAIN m.images : "author" \in m.images[p]

\* What holds of C25: the entries of the transfers made by the run that wrote
\* the manifest carry the author; the entries of skipped files carry a path
\* and a reason only.
TransferredEntriesHaveAuthor ==
  \A m \in localManifest :
    \A p \in DOMAIN m.images :
      "author" \in m.images[p] <=> "skipped" \notin m.images[p]

\* ------------------------------------------------------- accounting claims
\* C27: when downloadImagesBatch returns, every entry of its input is in
\* exactly one of successful, failed, skipped, the progress counter has been
\* advanced once per entry, and the stats of the local manifest satisfy
\* total_images = downloaded + failed + skipped = number of entries of the
\* remote manifest.
C27_EveryEntryAccounted ==
  /\ completed <= N
  /\ BatchReturned =>
       /\ SuccessfulIds \cup FailedIds \cup SkippedIds = SeqToSet(imageEntries)
       /\ SuccessfulIds \cap FailedIds = {}
       /\ SuccessfulIds \cap SkippedIds = {}
       /\ FailedIds \cap SkippedIds = {}
       /\ Len(results.successful) = Cardinality(SuccessfulIds)
       /\ Len(results.failed) = Cardinality(FailedIds)
       /\ Len(results.skipped) = Cardinality(SkippedIds)
       /\ completed = N
       /\ pc \in {"report", "exited"} =>
            \A m \in localManifest :
              /\ m.stats.total_images =
                   m.stats.downloaded + m.stats.failed + m.stats.skipped
              /\ m.stats.total_images = N
              /\ m.stats.downloaded = Len(results.successful)
              /\ m.stats.failed = Len(results.failed)
              /\ m.stats.skipped = Len(results.skipped)

\* C27 witness: the local manifest of a run of MaxEntries entries has been
\* written, and the run had a successful, a failed and a skipped entry.
C27_Witness ==
  /\ pc = "report"
  /\ N = MaxEntries
  /\ localManifest # {}
  /\ SuccessfulIds # {}
  /\ FailedIds # {}
  /\ SkippedIds # {}

\* C28: an entry recorded as failed leaves no file at its destination path,
\* so that the next run attempts its transfer again; a file exists at a
\* destination path after a run only if the entry is recorded successful or
\* skipped.
C28_FailedLeavesNoFile ==
  pc \in {"report", "exited"} =>
    \A e \in Tasks :
      imageEntries[e] \in FailedIds => files[imageEntries[e]] = "absent"

\* What holds of C28: the file of a failed entry is never a complete one, and
\* one is there only when an attempt of this run opened it for writing.
FailedLeavesAtMostPartial ==
  pc \in {"report", "exited"} =>
    \A e \in Tasks :
      imageEntries[e] \in FailedIds =>
        /\ files[imageEntries[e]] \in {"absent", "partial"}
        /\ files[imageEntries[e]] = "partial" => opened[e]

\* C30: after a build run with an access key and at least one scanned URL
\* the written manifest satisfies total_found = successfully_cached +
\* failed_to_cache, and successfully_cached is the number of identifiers of
\* its images mapping.
C30_StatsMatchImages ==
  (bpc = "exited" /\ accessKey /\ imageUrls # <<>>) =>
    \A m \in remoteManifest :
      /\ m.stats.total_found =
           m.stats.successfully_cached + m.stats.failed_to_cache
      /\ m.stats.successfully_cached = Cardinality(DOMAIN m.images)

\* the scanned URLs resolve to identifiers that differ from one another
DistinctIdentifiers ==
  \A a, b \in 1..Len(imageUrls) :
    (a # b /\ extractPhotoId(imageUrls[a]) # NoPhotoId) =>
      extractPhotoId(imageUrls[a]) # extractPhotoId(imageUrls[b])

\* What holds of C30: the counters add up to the number of scanned URLs;
\* successfully_cached counts successful fetches, which is the number of
\* identifiers of the mapping when no two URLs resolve to one identifier and
\* at least that number otherwise.
StatsCountFetches ==
  (bpc = "exited" /\ accessKey /\ imageUrls # <<>>) =>
    \A m \in remoteManifest :
      /\ m.stats.total_found = Len(imageUrls)
      /\ m.stats.total_found =
           m.stats.successfully_cached + m.stats.failed_to_cache
      /\ m.stats.successfully_cached >= Cardinality(DOMAIN m.images)
      /\ DistinctIdentifiers =>
           m.stats.successfully_cached = Cardinality(DOMAIN m.images)

====
